---- MODULE Spec2Model ----
(***************************************************************************)
(* Model of the transcript parser (ChatParser) and of the candidate       *)
(* extraction (CandidateExtractor) of chat_analyzer.py.                    *)
(*                                                                         *)
(* Text is modelled as TLA+ strings, one character at a time: Len, \o and  *)
(* SubSeq are the only primitives used, and every regular expression of    *)
(* the source is written out as a matcher over the characters.             *)
(***************************************************************************)
EXTENDS Integers, Sequences, FiniteSets, TLC

VARIABLES
    lines,            \* the lines the file iterator yields (for line in f)
    pos,              \* number of lines consumed by the loop of parse()
    current_message,  \* <<>> for None, <<m>> for the open message m
    messages,         \* self.messages
    pc,               \* "parse", "parsed" (parse returned), "extracted", "raised"
    query_type,       \* argument of the last extract() call
    candidates,       \* value returned by the last extract() call
    raised,           \* "" or the exception the last extract() call raised
    owner,            \* for every candidate: 0 for a dict of its own, j when it
                      \* is the dict object of messages[j]
    dates,            \* the date strings a formatter sorts
    keys,             \* <<>> or the _parse_date keys of the dates, in their order
    returned,         \* the lists the parse() calls returned so far, in call order
    chunk_size,       \* argument of analyze_chunk()
    results,          \* the list analyze_chunk() builds
    replies,          \* for every chunk sent so far, what the completion call did
    output            \* the text main() prints or writes

vars ==
    <<lines, pos, current_message, messages, pc, query_type, candidates, raised,
      owner, dates, keys, returned, chunk_size, results, replies, output>>

-----------------------------------------------------------------------------
(* Characters and the str methods the code uses.                           *)

NL == "\n"

Ch(s, i) == SubSeq(s, i, i)

From(s, i) == SubSeq(s, i, Len(s))

Whitespace == {" ", "\n", "\t"}

Digits == {"0", "1", "2", "3", "4", "5", "6", "7", "8", "9"}

LowerLetters ==
    {"a", "b", "c", "d", "e", "f", "g", "h", "i", "j", "k", "l", "m",
     "n", "o", "p", "q", "r", "s", "t", "u", "v", "w", "x", "y", "z"}

UpperLetters ==
    {"A", "B", "C", "D", "E", "F", "G", "H", "I", "J", "K", "L", "M",
     "N", "O", "P", "Q", "R", "S", "T", "U", "V", "W", "X", "Y", "Z"}

\* \w of the re module
WordChars == LowerLetters \cup UpperLetters \cup Digits \cup {"_"}

\* s.startswith(sub, i - 1): sub is the text of s from position i on
At(s, i, sub) == i + Len(sub) - 1 <= Len(s) /\ SubSeq(s, i, i + Len(sub) - 1) = sub

\* str.lstrip(): drop the leading whitespace
lstrip(s) ==
    IF \A i \in 1..Len(s) : Ch(s, i) \in Whitespace
    THEN ""
    ELSE LET first == CHOOSE i \in 1..Len(s) :
                          /\ Ch(s, i) \notin Whitespace
                          /\ \A j \in 1..(i - 1) : Ch(s, j) \in Whitespace
         IN  From(s, first)

\* str.rstrip(): drop the trailing whitespace
rstrip(s) ==
    IF \A i \in 1..Len(s) : Ch(s, i) \in Whitespace
    THEN ""
    ELSE LET last == CHOOSE i \in 1..Len(s) :
                         /\ Ch(s, i) \notin Whitespace
                         /\ \A j \in (i + 1)..Len(s) : Ch(s, j) \in Whitespace
         IN  SubSeq(s, 1, last)

\* str.strip()
strip(s) == lstrip(rstrip(s))

\* position of the first occurrence of character c in s, 0 when there is none
IndexOf(s, c) ==
    IF \E i \in 1..Len(s) : Ch(s, i) = c
    THEN CHOOSE i \in 1..Len(s) :
             /\ Ch(s, i) = c
             /\ \A j \in 1..(i - 1) : Ch(s, j) # c
    ELSE 0

\* sep.join(parts)
RECURSIVE join(_, _)
join(parts, sep) ==
    IF parts = <<>> THEN ""
    ELSE IF Len(parts) = 1 THEN parts[1]
    ELSE parts[1] \o sep \o join(Tail(parts), sep)

\* str.split(c) for a one-character separator
RECURSIVE split(_, _)
split(s, c) ==
    LET k == IndexOf(s, c)
    IN  IF k = 0 THEN <<s>>
        ELSE <<SubSeq(s, 1, k - 1)>> \o split(From(s, k + 1), c)

-----------------------------------------------------------------------------
(* ChatParser                                                              *)

\* TIMESTAMP_PATTERN = r'\[(\d{2}/\d{2}/\d{4}, \d{2}:\d{2}(?::\d{2})?)\]'
\* The part up to the minutes, "[DD/MM/YYYY, HH:MM", is 18 characters.
TimestampHead(line) ==
    /\ Len(line) >= 18
    /\ Ch(line, 1) = "["
    /\ \A i \in {2, 3, 5, 6, 8, 9, 10, 11, 14, 15, 17, 18} : Ch(line, i) \in Digits
    /\ Ch(line, 4) = "/"
    /\ Ch(line, 7) = "/"
    /\ Ch(line, 12) = ","
    /\ Ch(line, 13) = " "
    /\ Ch(line, 16) = ":"

\* the optional group (?::\d{2})? followed by \]
TimestampWithSeconds(line) ==
    /\ TimestampHead(line)
    /\ Len(line) >= 22
    /\ Ch(line, 19) = ":"
    /\ Ch(line, 20) \in Digits
    /\ Ch(line, 21) \in Digits
    /\ Ch(line, 22) = "]"

TimestampWithoutSeconds(line) ==
    /\ TimestampHead(line)
    /\ Len(line) >= 19
    /\ Ch(line, 19) = "]"

\* re.match(self.TIMESTAMP_PATTERN, line): timestamp_match.end(), 0 for no match
TIMESTAMP_PATTERN(line) ==
    IF TimestampWithSeconds(line) THEN 22
    ELSE IF TimestampWithoutSeconds(line) THEN 19
    ELSE 0

\* timestamp_match.group(1): the text inside the brackets
timestamp_group(line) == SubSeq(line, 2, TIMESTAMP_PATTERN(line) - 1)

_extract_date(timestamp) == strip(split(timestamp, ",")[1])

\* _extract_time without the strip
_extract_time_NoStrip(timestamp) == split(timestamp, ",")[2]

_extract_time(timestamp) == strip(split(timestamp, ",")[2])

\* sender_match with a greedy first group that may hold colons, (.+):\s*(.+):
\* the split is on the last colon that text follows
sender_match_LastColon(remainder) ==
    LET Fits(k) ==
            /\ k + 1 <= Len(remainder)
            /\ Ch(remainder, k + 1) = ":"
            /\ \E i \in (k + 2)..Len(remainder) : Ch(remainder, i) \notin Whitespace
    IN  IF \E k \in 1..Len(remainder) : Fits(k)
        THEN CHOOSE k \in 1..Len(remainder) :
                 Fits(k) /\ \A j \in (k + 1)..Len(remainder) : ~Fits(j)
        ELSE 0

\* re.match(r'^([^:]+?):\s*(.+)', remainder): the length k of group 1, 0 for
\* no match. Group 1 is lazy: the shortest colon-free prefix of at least one
\* character that is followed by a colon and for which \s*(.+) matches the
\* rest ('.' matches any character but a newline).
sender_match(remainder) ==
    LET Fits(k) ==
            /\ \A i \in 1..k : Ch(remainder, i) # ":"
            /\ k + 1 <= Len(remainder)
            /\ Ch(remainder, k + 1) = ":"
            /\ \E w \in 0..(Len(remainder) - k - 1) :
                   \* \s* takes w characters, (.+) the rest
                   /\ \A i \in (k + 2)..(k + 1 + w) : Ch(remainder, i) \in Whitespace
                   /\ k + 1 + w < Len(remainder)
                   /\ \A i \in (k + 2 + w)..Len(remainder) : Ch(remainder, i) # NL
    IN  IF \E k \in 1..Len(remainder) : Fits(k)
        THEN CHOOSE k \in 1..Len(remainder) :
                 Fits(k) /\ \A j \in 1..(k - 1) : ~Fits(j)
        ELSE 0

\* sender_match.group(2): \s* is greedy and (.+) runs to the end
sender_group2(remainder) ==
    LET k    == sender_match(remainder)
        rest == From(remainder, k + 2)
        w    == CHOOSE n \in 0..Len(rest) :
                    /\ \A i \in 1..n : Ch(rest, i) \in Whitespace
                    /\ n < Len(rest)
                    /\ \A m \in (n + 1)..(Len(rest) - 1) :
                           \E i \in 1..m : Ch(rest, i) \notin Whitespace
    IN  From(rest, w + 1)

SYSTEM == "SYSTEM"

\* NewMessage with the sender of a system message left empty
NewMessage_EmptySender(line) ==
    LET timestamp_str == timestamp_group(line)
        remainder     == strip(From(line, TIMESTAMP_PATTERN(line) + 1))
        k             == sender_match(remainder)
    IN  [timestamp |-> timestamp_str,
         sender    |-> IF k > 0 THEN strip(SubSeq(remainder, 1, k)) ELSE "",
         content   |-> IF k > 0 THEN strip(sender_group2(remainder)) ELSE remainder,
         date      |-> _extract_date(timestamp_str),
         time      |-> _extract_time(timestamp_str)]

\* NewMessage that takes everything before the first colon for the sender,
\* whether or not text follows the colon
NewMessage_BareName(line) ==
    LET timestamp_str == timestamp_group(line)
        remainder     == strip(From(line, TIMESTAMP_PATTERN(line) + 1))
        colon         == IndexOf(remainder, ":")
    IN  [timestamp |-> timestamp_str,
         sender    |-> IF colon > 1 THEN strip(SubSeq(remainder, 1, colon - 1)) ELSE SYSTEM,
         content   |-> IF colon > 1 THEN strip(From(remainder, colon + 1)) ELSE remainder,
         date      |-> _extract_date(timestamp_str),
         time      |-> _extract_time(timestamp_str)]

\* the Message built from a line that starts with a timestamp marker
NewMessage(line) ==
    LET timestamp_str == timestamp_group(line)
        remainder     == strip(From(line, TIMESTAMP_PATTERN(line) + 1))
        k             == sender_match(remainder)
    IN  IF k > 0
        THEN [timestamp |-> timestamp_str,
              sender    |-> strip(SubSeq(remainder, 1, k)),
              content   |-> strip(sender_group2(remainder)),
              date      |-> _extract_date(timestamp_str),
              time      |-> _extract_time(timestamp_str)]
        ELSE [timestamp |-> timestamp_str,
              sender    |-> SYSTEM,
              content   |-> remainder,
              date      |-> _extract_date(timestamp_str),
              time      |-> _extract_time(timestamp_str)]

\* the line the loop is about to read
line == lines[pos + 1]

\* a line that starts with a timestamp marker: the open message, if any, is
\* appended to self.messages and a new one is started
MarkerLine ==
    /\ pc = "parse"
    /\ pos < Len(lines)
    /\ TIMESTAMP_PATTERN(line) > 0
    /\ messages' = messages \o current_message
    /\ current_message' = <<NewMessage(line)>>
    /\ pos' = pos + 1
    /\ UNCHANGED <<lines, pc, query_type, candidates, raised>>
    /\ UNCHANGED <<owner, dates, keys>>
    /\ UNCHANGED <<returned, chunk_size, results, replies, output>>

\* ContinuationLine that appends the line as read, trailing whitespace included
ContinuationLine_NoTrim ==
    /\ pc = "parse"
    /\ pos < Len(lines)
    /\ TIMESTAMP_PATTERN(line) = 0
    /\ current_message # <<>>
    /\ current_message' =
           <<[current_message[1] EXCEPT
                 !.content = current_message[1].content \o NL \o line]>>
    /\ pos' = pos + 1
    /\ UNCHANGED <<lines, messages, pc, query_type, candidates, raised>>
    /\ UNCHANGED <<owner, dates, keys>>
    /\ UNCHANGED <<returned, chunk_size, results, replies, output>>

\* ContinuationLine that appends only the lines that hold text
ContinuationLine_SkipsBlank ==
    /\ pc = "parse"
    /\ pos < Len(lines)
    /\ TIMESTAMP_PATTERN(line) = 0
    /\ current_message # <<>>
    /\ current_message' =
           IF rstrip(line) = "" THEN current_message
           ELSE <<[current_message[1] EXCEPT
                      !.content = current_message[1].content \o NL \o rstrip(line)]>>
    /\ pos' = pos + 1
    /\ UNCHANGED <<lines, messages, pc, query_type, candidates, raised>>
    /\ UNCHANGED <<owner, dates, keys>>
    /\ UNCHANGED <<returned, chunk_size, results, replies, output>>

\* any other line while a message is open: a continuation of that message
ContinuationLine ==
    /\ pc = "parse"
    /\ pos < Len(lines)
    /\ TIMESTAMP_PATTERN(line) = 0
    /\ current_message # <<>>
    /\ current_message' =
           <<[current_message[1] EXCEPT
                 !.content = current_message[1].content \o NL \o rstrip(line)]>>
    /\ pos' = pos + 1
    /\ UNCHANGED <<lines, messages, pc, query_type, candidates, raised>>
    /\ UNCHANGED <<owner, dates, keys>>
    /\ UNCHANGED <<returned, chunk_size, results, replies, output>>

\* DroppedLine that keeps the line as a message without a timestamp
DroppedLine_StartsMessage ==
    /\ pc = "parse"
    /\ pos < Len(lines)
    /\ TIMESTAMP_PATTERN(line) = 0
    /\ current_message = <<>>
    /\ current_message' =
           <<[timestamp |-> "", sender |-> SYSTEM, content |-> rstrip(line),
              date |-> "", time |-> ""]>>
    /\ pos' = pos + 1
    /\ UNCHANGED <<lines, messages, pc, query_type, candidates, raised>>
    /\ UNCHANGED <<owner, dates, keys>>
    /\ UNCHANGED <<returned, chunk_size, results, replies, output>>

\* any other line before the first marker: nothing is done with it
DroppedLine ==
    /\ pc = "parse"
    /\ pos < Len(lines)
    /\ TIMESTAMP_PATTERN(line) = 0
    /\ current_message = <<>>
    /\ pos' = pos + 1
    /\ UNCHANGED <<lines, current_message, messages, pc, query_type, candidates, raised>>
    /\ UNCHANGED <<owner, dates, keys>>
    /\ UNCHANGED <<returned, chunk_size, results, replies, output>>

\* EndOfInput without the test of the open message: with no message open an
\* entry without text is appended
EndOfInput_AppendsNone ==
    /\ pc = "parse"
    /\ pos = Len(lines)
    /\ messages' = messages \o
           (IF current_message = <<>>
            THEN <<[timestamp |-> "", sender |-> "", content |-> "", date |-> "",
                    time |-> ""]>>
            ELSE current_message)
    /\ pc' = "parsed"
    /\ UNCHANGED <<lines, pos, current_message, query_type, candidates, raised>>
    /\ UNCHANGED <<owner, dates, keys>>
    /\ returned' = Append(returned, messages')
    /\ UNCHANGED <<chunk_size, results, replies, output>>

\* EndOfInput that returns without appending the open message
EndOfInput_DropsLast ==
    /\ pc = "parse"
    /\ pos = Len(lines)
    /\ pc' = "parsed"
    /\ UNCHANGED <<lines, pos, current_message, messages, query_type, candidates, raised>>
    /\ UNCHANGED <<owner, dates, keys>>
    /\ returned' = Append(returned, messages')
    /\ UNCHANGED <<chunk_size, results, replies, output>>

\* end of the file: the last message is appended and parse() returns
EndOfInput ==
    /\ pc = "parse"
    /\ pos = Len(lines)
    /\ messages' = messages \o current_message
    /\ pc' = "parsed"
    /\ UNCHANGED <<lines, pos, current_message, query_type, candidates, raised>>
    /\ UNCHANGED <<owner, dates, keys>>
    /\ returned' = Append(returned, messages')
    /\ UNCHANGED <<chunk_size, results, replies, output>>

MaxCalls == 2

\* parse() is called again on the same ChatParser: current_message = None and
\* the file is read from its first line, and self.messages, which only
\* __init__ assigns, is the list the earlier call filled
ParseAgain ==
    /\ pc = "parsed"
    /\ Len(returned) < MaxCalls
    /\ pos' = 0
    /\ current_message' = <<>>
    /\ pc' = "parse"
    /\ UNCHANGED <<lines, messages, query_type, candidates, raised>>
    /\ UNCHANGED <<owner, dates, keys>>
    /\ UNCHANGED <<returned, chunk_size, results, replies, output>>

-----------------------------------------------------------------------------
(* The regular expressions of the extractors.                              *)
(*                                                                         *)
(* A pattern is a small syntax tree; Ends(re, ic, s, i) is the set of the  *)
(* positions at which a match of re that starts at position i of s can    *)
(* end (the position after its last character), so that backtracking is   *)
(* covered. ic is re.IGNORECASE.                                           *)

UpperSeq == "ABCDEFGHIJKLMNOPQRSTUVWXYZ"

LowerSeq == "abcdefghijklmnopqrstuvwxyz"

LowerOf == [c \in UpperLetters |-> Ch(LowerSeq, CHOOSE i \in 1..26 : Ch(UpperSeq, i) = c)]

LowerCh(c) == IF c \in UpperLetters THEN LowerOf[c] ELSE c

\* str.lower()
RECURSIVE lower(_)
lower(s) == IF s = "" THEN "" ELSE LowerCh(Ch(s, 1)) \o lower(From(s, 2))

Lit(text) == [t |-> "lit", s |-> text]

Cls(chars) == [t |-> "cls", cs |-> chars]

Plus(chars) == [t |-> "plus", cs |-> chars]

Star(chars) == [t |-> "star", cs |-> chars]

WordBoundary == [t |-> "b"]

StartOfString == [t |-> "bol"]

Alt(res) == [t |-> "alt", xs |-> res]

Cat(res) == [t |-> "cat", xs |-> res]

\* \b(...)\b
Word(res) == Cat(<<WordBoundary, Alt(res), WordBoundary>>)

IsWordAt(s, i) == i >= 1 /\ i <= Len(s) /\ Ch(s, i) \in WordChars

RECURSIVE Ends(_, _, _, _)
RECURSIVE CatEnds(_, _, _, _, _)

Ends(re, ic, s, i) ==
    CASE re.t = "lit" ->
             IF /\ i + Len(re.s) - 1 <= Len(s)
                /\ IF ic
                   THEN \A k \in 1..Len(re.s) :
                            LowerCh(Ch(s, i + k - 1)) = LowerCh(Ch(re.s, k))
                   ELSE SubSeq(s, i, i + Len(re.s) - 1) = re.s
             THEN {i + Len(re.s)}
             ELSE {}
      [] re.t = "cls" ->
             IF i <= Len(s) /\ Ch(s, i) \in re.cs THEN {i + 1} ELSE {}
      [] re.t = "plus" ->
             {j \in (i + 1)..(Len(s) + 1) : \A k \in i..(j - 1) : Ch(s, k) \in re.cs}
      [] re.t = "star" ->
             {j \in i..(Len(s) + 1) : \A k \in i..(j - 1) : Ch(s, k) \in re.cs}
      [] re.t = "b" ->
             IF IsWordAt(s, i - 1) # IsWordAt(s, i) THEN {i} ELSE {}
      [] re.t = "bol" ->
             IF i = 1 THEN {i} ELSE {}
      [] re.t = "alt" ->
             UNION {Ends(re.xs[k], ic, s, i) : k \in DOMAIN re.xs}
      [] re.t = "cat" ->
             CatEnds(re.xs, 1, ic, s, {i})

\* the parts xs[n], xs[n + 1], ... one after the other, from any of the starts
CatEnds(xs, n, ic, s, starts) ==
    IF n > Len(xs) \/ starts = {} THEN starts
    ELSE CatEnds(xs, n + 1, ic, s, UNION {Ends(xs[n], ic, s, i) : i \in starts})

\* re.search(pattern, s) is not None
search(re, ic, s) == \E i \in 1..(Len(s) + 1) : Ends(re, ic, s, i) # {}

\* a pattern of a pattern list: the text of the source and its syntax tree
Pattern(text, tree) == [text |-> text, re |-> tree]

\* the first pattern of the list that matches, 0 when none does
\* (for pattern in patterns: if re.search(pattern, content, re.IGNORECASE): ... break)
RECURSIVE FirstMatchFrom(_, _, _)
FirstMatchFrom(patterns, k, content) ==
    IF k > Len(patterns) THEN 0
    ELSE IF search(patterns[k].re, TRUE, content) THEN k
    ELSE FirstMatchFrom(patterns, k + 1, content)

\* FirstMatch that goes through the whole list and keeps the last pattern
\* that matches
FirstMatch_LastPattern(patterns, content) ==
    LET matching == {k \in DOMAIN patterns : search(patterns[k].re, TRUE, content)}
    IN  IF matching = {} THEN 0 ELSE CHOOSE k \in matching : \A j \in matching : j <= k

FirstMatch(patterns, content) == FirstMatchFrom(patterns, 1, content)

\* Flatten that puts what a later message contributes first
RECURSIVE Flatten_Reversed(_)
Flatten_Reversed(seqs) ==
    IF seqs = <<>> THEN <<>> ELSE Flatten_Reversed(Tail(seqs)) \o Head(seqs)

\* candidates.append(...) over the messages in order: the lists each message
\* contributes, one after the other
RECURSIVE Flatten(_)
Flatten(seqs) == IF seqs = <<>> THEN <<>> ELSE Head(seqs) \o Flatten(Tail(seqs))

\* {**msg, 'matched_pattern': pattern, 'type': type}
WithPattern(msg, pattern, type) ==
    [timestamp |-> msg.timestamp, sender |-> msg.sender, content |-> msg.content,
     date |-> msg.date, time |-> msg.time,
     matched_pattern |-> pattern, type |-> type]

\* The list-item class [\d\-\*•]: the model's text is ASCII, so the
\* bullet U+2022 is written as an escape in the pattern text and never occurs.
action_patterns ==
    << Pattern("@\\w+", Cat(<<Lit("@"), Plus(WordChars)>>)),
       Pattern("\\b(can you|could you|please|need to|have to|should|must)\\b",
               Word(<<Lit("can you"), Lit("could you"), Lit("please"), Lit("need to"),
                      Lit("have to"), Lit("should"), Lit("must")>>)),
       Pattern("\\b(task|action|todo|assignment|deliverable)\\b",
               Word(<<Lit("task"), Lit("action"), Lit("todo"), Lit("assignment"),
                      Lit("deliverable")>>)),
       Pattern("\\b(by \\w+day|by EOD|before|deadline|due)\\b",
               Word(<<Cat(<<Lit("by "), Plus(WordChars), Lit("day")>>), Lit("by EOD"),
                      Lit("before"), Lit("deadline"), Lit("due")>>)),
       Pattern("^\\s*[\\d\\-\\*\\u2022]\\s+",
               Cat(<<StartOfString, Star(Whitespace), Cls(Digits \cup {"-", "*"}),
                     Plus(Whitespace)>>)),
       Pattern("\\b(will|going to|planning to|need to)\\b",
               Word(<<Lit("will"), Lit("going to"), Lit("planning to"), Lit("need to")>>)),
       Pattern("\\b(create|make|build|develop|design|write|research|investigate|review)\\b",
               Word(<<Lit("create"), Lit("make"), Lit("build"), Lit("develop"),
                      Lit("design"), Lit("write"), Lit("research"), Lit("investigate"),
                      Lit("review")>>)) >>

\* actions_of without the test of the sender
actions_of_KeepsSystem(msg) ==
    LET content == lower(msg.content)
        k       == FirstMatch(action_patterns, content)
    IN  IF k > 0 THEN <<WithPattern(msg, action_patterns[k].text, "action")>>
        ELSE <<>>

\* what one message adds to the candidates of _extract_actions
actions_of(msg) ==
    LET content == lower(msg.content)
        k       == FirstMatch(action_patterns, content)
    IN  IF msg.sender = SYSTEM THEN <<>>
        ELSE IF k > 0 THEN <<WithPattern(msg, action_patterns[k].text, "action")>>
        ELSE <<>>

_extract_actions(msgs) == Flatten([i \in 1..Len(msgs) |-> actions_of(msgs[i])])

decision_patterns ==
    << Pattern("\\b(decided|decision|agreed|settled on|chose|selected|going with)\\b",
               Word(<<Lit("decided"), Lit("decision"), Lit("agreed"), Lit("settled on"),
                      Lit("chose"), Lit("selected"), Lit("going with")>>)),
       Pattern("\\b(let's|we should|we will|we're going to)\\b",
               Word(<<Lit("let's"), Lit("we should"), Lit("we will"),
                      Lit("we're going to")>>)),
       Pattern("\\b(approved|confirmed|finalized|locked in)\\b",
               Word(<<Lit("approved"), Lit("confirmed"), Lit("finalized"),
                      Lit("locked in")>>)) >>

decisions_of(msg) ==
    LET k == FirstMatch(decision_patterns, lower(msg.content))
    IN  IF k > 0 THEN <<WithPattern(msg, decision_patterns[k].text, "decision")>> ELSE <<>>

_extract_decisions(msgs) == Flatten([i \in 1..Len(msgs) |-> decisions_of(msgs[i])])

\* r'\b(what|why|how|when|where|who|which)\b'
question_words ==
    Word(<<Lit("what"), Lit("why"), Lit("how"), Lit("when"), Lit("where"), Lit("who"),
           Lit("which")>>)

\* '?' in msg['content']
Contains(s, sub) == \E i \in 1..Len(s) : At(s, i, sub)

\* questions_of with the exclusion of system messages that actions has
questions_of_SkipsSystem(msg) ==
    IF msg.sender # SYSTEM
           /\ (Contains(msg.content, "?") \/ search(question_words, TRUE, msg.content))
    THEN <<[timestamp |-> msg.timestamp, sender |-> msg.sender, content |-> msg.content,
            date |-> msg.date, time |-> msg.time, type |-> "question"]>>
    ELSE <<>>

questions_of(msg) ==
    IF Contains(msg.content, "?") \/ search(question_words, TRUE, msg.content)
    THEN <<[timestamp |-> msg.timestamp, sender |-> msg.sender, content |-> msg.content,
            date |-> msg.date, time |-> msg.time, type |-> "question"]>>
    ELSE <<>>

_extract_questions(msgs) == Flatten([i \in 1..Len(msgs) |-> questions_of(msgs[i])])

meeting_patterns ==
    << Pattern("\\b(meeting|call|zoom|session)\\b",
               Word(<<Lit("meeting"), Lit("call"), Lit("zoom"), Lit("session")>>)),
       Pattern("\\b(agenda|minutes)\\b", Word(<<Lit("agenda"), Lit("minutes")>>)),
       Pattern("zoom\\.us", Lit("zoom.us")) >>

meetings_of(msg) ==
    LET k == FirstMatch(meeting_patterns, lower(msg.content))
    IN  IF k > 0 THEN <<WithPattern(msg, meeting_patterns[k].text, "meeting")>> ELSE <<>>

_extract_meetings(msgs) == Flatten([i \in 1..Len(msgs) |-> meetings_of(msgs[i])])

deadline_patterns ==
    << Pattern("\\b(by \\w+day|by EOD|by end of|before \\w+day)\\b",
               Word(<<Cat(<<Lit("by "), Plus(WordChars), Lit("day")>>), Lit("by EOD"),
                      Lit("by end of"),
                      Cat(<<Lit("before "), Plus(WordChars), Lit("day")>>)>>)),
       Pattern("\\b(deadline|due date|due by)\\b",
               Word(<<Lit("deadline"), Lit("due date"), Lit("due by")>>)),
       Pattern("\\b(today|tomorrow|next week|this week)\\b",
               Word(<<Lit("today"), Lit("tomorrow"), Lit("next week"),
                      Lit("this week")>>)) >>

deadlines_of(msg) ==
    LET k == FirstMatch(deadline_patterns, lower(msg.content))
    IN  IF k > 0 THEN <<WithPattern(msg, deadline_patterns[k].text, "deadline")>> ELSE <<>>

_extract_deadlines(msgs) == Flatten([i \in 1..Len(msgs) |-> deadlines_of(msgs[i])])

Max(S) == CHOOSE x \in S : \A y \in S : y <= x

Min(S) == CHOOSE x \in S : \A y \in S : x <= y

\* the characters the negated class of url_pattern excludes: whitespace and
\* < > double quote { } | backslash ^ [ ] (and the grave accent, which the
\* model's text never holds)
Backslash == Ch("\\ ", 1)

UrlStop == Whitespace \cup {"<", ">", "\"", "{", "}", "|", Backslash, "^", "[", "]"}

\* url_pattern, https?:// and one or more characters outside UrlStop, matched
\* at position i: the position after the match, 0 for no match. The last part
\* is greedy.
UrlEnd(s, i) ==
    LET body == IF At(s, i, "https://") THEN i + 8
                ELSE IF At(s, i, "http://") THEN i + 7
                ELSE 0
    IN  IF body = 0 \/ body > Len(s) \/ Ch(s, body) \in UrlStop THEN 0
        ELSE Min({j \in (body + 1)..(Len(s) + 1) : j = Len(s) + 1 \/ Ch(s, j) \in UrlStop})

\* re.findall(url_pattern, s), searching from position i on
RECURSIVE FindUrls(_, _)
FindUrls(s, i) ==
    IF \E p \in i..Len(s) : UrlEnd(s, p) > 0
    THEN LET p == Min({q \in i..Len(s) : UrlEnd(s, q) > 0})
         IN  <<SubSeq(s, p, UrlEnd(s, p) - 1)>> \o FindUrls(s, UrlEnd(s, p))
    ELSE <<>>

\* str.replace(sub, ''), sub not empty
RECURSIVE Remove(_, _)
Remove(s, sub) ==
    IF Contains(s, sub)
    THEN LET p == Min({i \in 1..Len(s) : At(s, i, sub)})
         IN  SubSeq(s, 1, p - 1) \o Remove(From(s, p + Len(sub)), sub)
    ELSE s

\* self.messages[j]['content'][:200]
ContextLimit == 200

Truncate(s) == SubSeq(s, 1, IF Len(s) < ContextLimit THEN Len(s) ELSE ContextLimit)

\* ContextOf without the test of the sender
ContextOf_KeepsSystem(msgs, lo, hi) ==
    [k \in 1..(hi - lo + 1) |->
        LET m == msgs[lo + k - 1]
        IN  [sender |-> m.sender, content |-> Truncate(m.content), time |-> m.time]]

\* the context entries of the messages lo..hi that are not system messages
ContextOf(msgs, lo, hi) ==
    Flatten([k \in 1..(hi - lo + 1) |->
        LET m == msgs[lo + k - 1]
        IN  IF m.sender # SYSTEM
            THEN <<[sender |-> m.sender, content |-> Truncate(m.content), time |-> m.time]>>
            ELSE <<>>])

\* description: the first content line that contains urls[0], without it
Description(content, url) ==
    LET content_lines == split(content, NL)
        hits          == {k \in DOMAIN content_lines : Contains(content_lines[k], url)}
    IN  IF hits = {} THEN "" ELSE strip(Remove(content_lines[Min(hits)], url))

\* urls_of with one candidate for a message, for its first URL
urls_of_OnePerMessage(msgs, i) ==
    LET msg            == msgs[i]
        urls           == FindUrls(msg.content, 1)
        context_before == ContextOf(msgs, IF i - 2 < 1 THEN 1 ELSE i - 2, i - 1)
        context_after  == ContextOf(msgs, i + 1, IF i + 2 > Len(msgs) THEN Len(msgs) ELSE i + 2)
        description    == Description(msg.content, urls[1])
    IN  IF urls = <<>> THEN <<>>
        ELSE <<[timestamp |-> msg.timestamp, date |-> msg.date, time |-> msg.time,
                sender |-> msg.sender, url |-> urls[1], description |-> description,
                full_message |-> msg.content, context_before |-> context_before,
                context_after |-> context_after, type |-> "url"]>>

\* what the message at index i adds to the candidates of _extract_urls
\* (i counts from 1; range(max(0, i-2), i) and range(i+1, min(len, i+3)) of the code)
urls_of(msgs, i) ==
    LET msg            == msgs[i]
        urls           == FindUrls(msg.content, 1)
        context_before == ContextOf(msgs, IF i - 2 < 1 THEN 1 ELSE i - 2, i - 1)
        context_after  == ContextOf(msgs, i + 1, IF i + 2 > Len(msgs) THEN Len(msgs) ELSE i + 2)
        description    == Description(msg.content, urls[1])
    IN  IF urls = <<>> THEN <<>>
        ELSE [u \in 1..Len(urls) |->
                 [timestamp |-> msg.timestamp, date |-> msg.date, time |-> msg.time,
                  sender |-> msg.sender, url |-> urls[u], description |-> description,
                  full_message |-> msg.content, context_before |-> context_before,
                  context_after |-> context_after, type |-> "url"]]

_extract_urls(msgs) == Flatten([i \in 1..Len(msgs) |-> urls_of(msgs, i)])

\* re.findall(r'@(\w+)', s), searching from position i on: the groups
RECURSIVE FindMentions(_, _)
FindMentions(s, i) ==
    LET mention  == Cat(<<Lit("@"), Plus(WordChars)>>)
        starts   == {p \in i..Len(s) : Ends(mention, FALSE, s, p) # {}}
    IN  IF starts = {} THEN <<>>
        ELSE LET p == Min(starts)
                 e == Max(Ends(mention, FALSE, s, p))
             IN  <<SubSeq(s, p + 1, e - 1)>> \o FindMentions(s, e)

\* r'\b([A-Z][a-z]+(?:\s+[A-Z][a-z]+)?)\s+(?:to|will|can you|please)' at
\* position p: <<end of group 1, end of the match>> of the match the re module
\* takes, <<0, 0>> for no match. [a-z]+ is greedy and the optional second
\* name is tried before its absence.
AssignmentAt(s, p) ==
    LET first   == Cat(<<WordBoundary, Cls(UpperLetters), Plus(LowerLetters)>>)
        second  == Cat(<<Plus(Whitespace), Cls(UpperLetters), Plus(LowerLetters)>>)
        tail    == Cat(<<Plus(Whitespace),
                         Alt(<<Lit("to"), Lit("will"), Lit("can you"), Lit("please")>>)>>)
        Rest(g) == Ends(tail, FALSE, s, g)
        Both(n) == {g \in Ends(second, FALSE, s, n) : Rest(g) # {}}
        firsts  == {n \in Ends(first, FALSE, s, p) : Both(n) # {} \/ Rest(n) # {}}
    IN  IF firsts = {} THEN <<0, 0>>
        ELSE LET n == Max(firsts)
                 g == IF Both(n) # {} THEN Max(Both(n)) ELSE n
             IN  <<g, Max(Rest(g))>>

\* re.findall of that pattern, searching from position i on: the groups
RECURSIVE FindAssignments(_, _)
FindAssignments(s, i) ==
    LET starts == {p \in i..Len(s) : AssignmentAt(s, p)[1] > 0}
    IN  IF starts = {} THEN <<>>
        ELSE LET p == Min(starts)
                 m == AssignmentAt(s, p)
             IN  <<SubSeq(s, p, m[1] - 1)>> \o FindAssignments(s, m[2])

assignments_of(msg) ==
    LET content     == msg.content
        mentions    == FindMentions(content, 1)
        assignments == FindAssignments(content, 1)
    IN  IF mentions # <<>> \/ assignments # <<>>
        THEN <<[timestamp |-> msg.timestamp, sender |-> msg.sender,
                content |-> msg.content, date |-> msg.date, time |-> msg.time,
                mentions |-> mentions, assigned_to |-> assignments,
                type |-> "assignment"]>>
        ELSE <<>>

_extract_assignments(msgs) == Flatten([i \in 1..Len(msgs) |-> assignments_of(msgs[i])])

checkin_keywords == <<"check in", "checkin", "check-in", "mood">>

\* '$' of the re module: the end of the string, or before a newline that ends it
EndOfString(s, i) == i = Len(s) + 1 \/ (i = Len(s) /\ Ch(s, i) = NL)

\* (\d+)/10 at position p: <<start, end>> of group 1, <<0, 0>> for no match
ScoreOutOfTen(s, p) ==
    LET G == {g \in Ends(Plus(Digits), FALSE, s, p) : Ends(Lit("/10"), FALSE, s, g) # {}}
    IN  IF G = {} THEN <<0, 0>> ELSE <<p, Max(G)>>

\* [-•]\s*(\d+)(?:\s*\(|$) at position p (the bullet is outside the model's text)
ScoreAfterDash(s, p) ==
    LET After(g) == \/ Ends(Cat(<<Star(Whitespace), Lit("(")>>), FALSE, s, g) # {}
                    \/ EndOfString(s, g)
        G(q)     == {g \in Ends(Plus(Digits), FALSE, s, q) : After(g)}
        Q        == {q \in Ends(Cat(<<Cls({"-"}), Star(Whitespace)>>), FALSE, s, p) :
                        G(q) # {}}
    IN  IF Q = {} THEN <<0, 0>> ELSE <<Max(Q), Max(G(Max(Q)))>>

\* mood[\s:]+(\d+) at position p
ScoreAfterMood(s, p) ==
    LET G(q) == Ends(Plus(Digits), FALSE, s, q)
        Q    == {q \in Ends(Cat(<<Lit("mood"), Plus(Whitespace \cup {":"})>>), FALSE, s, p) :
                    G(q) # {}}
    IN  IF Q = {} THEN <<0, 0>> ELSE <<Max(Q), Max(G(Max(Q)))>>

\* the group of the alternative that matches at position p, the alternatives
\* tried in the order of the pattern
ScoreAt(s, p) ==
    IF ScoreOutOfTen(s, p)[1] > 0 THEN ScoreOutOfTen(s, p)
    ELSE IF ScoreAfterDash(s, p)[1] > 0 THEN ScoreAfterDash(s, p)
    ELSE ScoreAfterMood(s, p)

\* re.search(r'(?:(\d+)/10|[-•]\s*(\d+)(?:\s*\(|$)|mood[\s:]+(\d+))', content):
\* <<start, end>> of the group that matched in the leftmost match, <<0, 0>> for None
score_pattern(content) ==
    LET starts == {p \in 1..Len(content) : ScoreAt(content, p)[1] > 0}
    IN  IF starts = {} THEN <<0, 0>> ELSE ScoreAt(content, Min(starts))

\* checkins_of without the test of the score
checkins_of_KeywordOnly(msg) ==
    LET content             == lower(msg.content)
        has_checkin_keyword == \E k \in DOMAIN checkin_keywords :
                                   Contains(content, checkin_keywords[k])
        m                   == score_pattern(content)
    IN  IF has_checkin_keyword
        THEN <<[timestamp |-> msg.timestamp, sender |-> msg.sender,
                content |-> msg.content, date |-> msg.date, time |-> msg.time,
                score |-> IF m[1] > 0 THEN SubSeq(content, m[1], m[2] - 1) ELSE "",
                type |-> "checkin"]>>
        ELSE <<>>

\* checkins_of with the score taken from the start of the group to the end of
\* the content
checkins_of_ScoreToEnd(msg) ==
    LET content             == lower(msg.content)
        has_checkin_keyword == \E k \in DOMAIN checkin_keywords :
                                   Contains(content, checkin_keywords[k])
        m                   == score_pattern(content)
    IN  IF has_checkin_keyword /\ m[1] > 0
        THEN <<[timestamp |-> msg.timestamp, sender |-> msg.sender,
                content |-> msg.content, date |-> msg.date, time |-> msg.time,
                score |-> SubSeq(content, m[1], Len(content)), type |-> "checkin"]>>
        ELSE <<>>

checkins_of(msg) ==
    LET content             == lower(msg.content)
        has_checkin_keyword == \E k \in DOMAIN checkin_keywords :
                                   Contains(content, checkin_keywords[k])
        m                   == score_pattern(content)
    IN  IF has_checkin_keyword /\ m[1] > 0
        THEN <<[timestamp |-> msg.timestamp, sender |-> msg.sender,
                content |-> msg.content, date |-> msg.date, time |-> msg.time,
                score |-> SubSeq(content, m[1], m[2] - 1), type |-> "checkin"]>>
        ELSE <<>>

_extract_checkins(msgs) == Flatten([i \in 1..Len(msgs) |-> checkins_of(msgs[i])])

\* the keys of self.extractors, in the order of the dict
extractors ==
    <<"actions", "urls", "decisions", "questions", "meetings", "deadlines",
      "assignments", "checkins">>

Categories == {extractors[k] : k \in DOMAIN extractors}

\* self.extractors[query_type]()
Dispatch(query, msgs) ==
    CASE query = "actions"     -> _extract_actions(msgs)
      [] query = "urls"        -> _extract_urls(msgs)
      [] query = "decisions"   -> _extract_decisions(msgs)
      [] query = "questions"   -> _extract_questions(msgs)
      [] query = "meetings"    -> _extract_meetings(msgs)
      [] query = "deadlines"   -> _extract_deadlines(msgs)
      [] query = "assignments" -> _extract_assignments(msgs)
      [] query = "checkins"    -> _extract_checkins(msgs)

\* str(list(self.extractors.keys()))
RECURSIVE ListRepr(_, _)
ListRepr(names, k) ==
    IF k > Len(names) THEN "]"
    ELSE (IF k = 1 THEN "['" ELSE ", '") \o names[k] \o "'" \o ListRepr(names, k + 1)

UnknownQueryType(query) ==
    "ValueError: Unknown query type: " \o query \o ". Options: " \o ListRepr(extractors, 1)

\* query_type not in self.extractors
IsUnknown(query) == query \notin Categories

\* the names extract() is called with
QueryTypes == Categories \cup {"action", "summary"}

\* Extract that appends the message dicts themselves to the list it returns
Extract_AppendsMessage(query) ==
    /\ pc = "parsed"
    /\ query_type' = query
    /\ IF IsUnknown(query)
       THEN /\ pc' = "raised"
            /\ raised' = UnknownQueryType(query)
            /\ UNCHANGED <<candidates, owner>>
       ELSE /\ pc' = "extracted"
            /\ raised' = ""
            /\ candidates' = Dispatch(query, messages)
            /\ owner' = [k \in DOMAIN candidates' |->
                             CHOOSE j \in 1..Len(messages) :
                                 /\ messages[j].timestamp = candidates'[k].timestamp
                                 /\ messages[j].sender = candidates'[k].sender]
    /\ UNCHANGED <<lines, pos, current_message, messages, dates, keys>>
    /\ UNCHANGED <<returned, chunk_size, results, replies, output>>

\* Extract that returns an empty list for an unknown name
Extract_SilentEmpty(query) ==
    /\ pc = "parsed"
    /\ query_type' = query
    /\ pc' = "extracted"
    /\ raised' = ""
    /\ candidates' = IF IsUnknown(query) THEN <<>> ELSE Dispatch(query, messages)
    /\ owner' = [k \in DOMAIN candidates' |-> 0]
    /\ UNCHANGED <<lines, pos, current_message, messages, dates, keys>>
    /\ UNCHANGED <<returned, chunk_size, results, replies, output>>

\* extractor = CandidateExtractor(messages); extractor.extract(query_type) on
\* the messages parse() returned: pc = "extracted" when it returned (candidates
\* is the list returned), pc = "raised" when it raised (nothing is returned)
Extract(query) ==
    /\ pc = "parsed"
    /\ query_type' = query
    /\ IF IsUnknown(query)
       THEN /\ pc' = "raised"
            /\ raised' = UnknownQueryType(query)
            /\ UNCHANGED <<candidates, owner>>
       ELSE /\ pc' = "extracted"
            /\ raised' = ""
            /\ candidates' = Dispatch(query, messages)
            /\ owner' = [k \in DOMAIN candidates' |-> 0]
    /\ UNCHANGED <<lines, pos, current_message, messages, dates, keys>>
    /\ UNCHANGED <<returned, chunk_size, results, replies, output>>

\* extract() has returned or raised: the caller holds the extractor and the
\* list it got, and can call extract() again
Return ==
    /\ pc \in {"extracted", "raised"}
    /\ pc' = "parsed"
    /\ query_type' = ""
    /\ UNCHANGED <<lines, pos, current_message, messages, candidates, raised>>
    /\ UNCHANGED <<owner, dates, keys>>
    /\ UNCHANGED <<returned, chunk_size, results, replies, output>>

-----------------------------------------------------------------------------
(* AIAnalyzer.analyze_chunk of chat_analyzer_ai.py. What the completion    *)
(* call does is not the program's to decide: for every chunk it raises, or *)
(* it returns a completion with one of the texts below.                    *)

\* --query of both command lines
QueryChoices ==
    {"actions", "urls", "decisions", "questions", "meetings", "deadlines", "assignments"}

MaxChunkSize == 3

\* The code fence of the source is three grave accents, a character a string
\* of the model cannot hold: the model writes the fence as three apostrophes.
Fence == "'''"

\* <<"raises", str(e)>> or <<"content", completion.choices[0].message.content>>
Completions ==
    { <<"raises", "Connection error.">>,
      <<"content", "[]">>,
      <<"content", Fence \o "json" \o NL \o "[{\"is_action\": true}]" \o NL \o Fence>>,
      <<"content", Fence \o NL \o "[]" \o Fence \o " ">>,
      <<"content", Fence \o "json" \o NL \o "[{">>,
      <<"content", "Sorry">>,
      <<"content", "null">> }

\* json.loads on the texts the completions above leave to parse
json_loads(text) ==
    CASE text = "[]" -> [kind |-> "list", value |-> <<>>]
      [] text = "[{\"is_action\": true}]" ->
             [kind |-> "list", value |-> <<[is_action |-> TRUE]>>]
      [] text = "null" -> [kind |-> "None"]
      [] text = "[{" ->
             [kind |-> "JSONDecodeError",
              msg  |-> "Expecting property name enclosed in double quotes: line 1 column 3 (char 2)"]
      [] OTHER ->
             [kind |-> "JSONDecodeError",
              msg  |-> "Expecting value: line 1 column 1 (char 0)"]

\* the value _analyze_single_chunk returns for a chunk: the parsed reply, or
\* [{'error': str(e), **item} for item in chunk] when create() or json.loads
\* raises. Positions are the 0-based positions of the source; find is
\* str.find(sub, start).
_analyze_single_chunk(chunk, completion) ==
    LET find(s, sub, start) ==
            LET P == {p \in start..(Len(s) - 1) : At(s, p + 1, sub)}
            IN  IF P = {} THEN -1 ELSE Min(P)
        Slice(s, start, end) == SubSeq(s, start + 1, end)
        InFence(s, marker) ==
            LET start == find(s, marker, 0) + Len(marker)
                end   == find(s, Fence, start)
            IN  IF end > start THEN strip(Slice(s, start, end))
                ELSE IF end = -1 THEN strip(Slice(s, start, Len(s)))
                ELSE s
        original_response == completion[2]
        response_text     == strip(original_response)
        json_text ==
            IF Contains(response_text, Fence \o "json")
            THEN InFence(response_text, Fence \o "json")
            ELSE IF Contains(response_text, Fence)
            THEN InFence(response_text, Fence)
            ELSE response_text
        analyzed_items == json_loads(json_text)
        WithError(item, e) ==
            [f \in DOMAIN item \cup {"error"} |->
                IF f \in DOMAIN item THEN item[f] ELSE e]
        Failed(e) ==
            [kind |-> "list", value |-> [k \in 1..Len(chunk) |-> WithError(chunk[k], e)]]
    IN  IF completion[1] = "raises" THEN Failed(completion[2])
        ELSE IF analyzed_items.kind = "JSONDecodeError" THEN Failed(analyzed_items.msg)
        ELSE analyzed_items

\* analyze_chunk(candidates, query_type, chunk_size) is called on the list
\* extract() returned: results = [], and the loop is entered when
\* range(0, len(candidates), chunk_size) is not empty
analyze_chunk(size) ==
    /\ pc = "extracted"
    /\ chunk_size' = size
    /\ results' = <<>>
    /\ replies' = <<>>
    /\ pc' = IF candidates = <<>> THEN "analyzed" ELSE "analyze"
    /\ UNCHANGED <<lines, pos, current_message, messages, query_type, candidates, raised>>
    /\ UNCHANGED <<owner, dates, keys, returned, output>>

\* one iteration of the loop of analyze_chunk, i the value of its variable:
\* results.extend(analyzed) raises TypeError when the reply parsed to None,
\* and analyze_chunk returns results after the last chunk
ProcessChunk(completion) ==
    LET i        == Len(replies) * chunk_size
        last     == IF i + chunk_size < Len(candidates) THEN i + chunk_size
                    ELSE Len(candidates)
        chunk    == SubSeq(candidates, i + 1, last)
        analyzed == _analyze_single_chunk(chunk, completion)
    IN  /\ pc = "analyze"
        /\ replies' = Append(replies, completion)
        /\ IF analyzed.kind = "list"
           THEN /\ results' = results \o analyzed.value
                /\ pc' = IF last = Len(candidates) THEN "analyzed" ELSE "analyze"
                /\ UNCHANGED raised
           ELSE /\ raised' = "TypeError: 'NoneType' object is not iterable"
                /\ pc' = "raised"
                /\ UNCHANGED results
        /\ UNCHANGED <<lines, pos, current_message, messages, query_type, candidates>>
        /\ UNCHANGED <<owner, dates, keys, returned, chunk_size, output>>

-----------------------------------------------------------------------------
(* AIMarkdownFormatter._parse_date: the key the formatters sort dates by.   *)
(*                                                                         *)
(* A datetime is <<year, month, day>> (the time of day is always 0:00), and *)
(* a call that raises ValueError has the value ValueError.                  *)

ValueError == <<>>

DigitChars == "0123456789"

DigitValue(c) == (CHOOSE i \in 1..10 : Ch(DigitChars, i) = c) - 1

\* int() of the digits a..b of s
RECURSIVE Number(_, _, _)
Number(s, a, b) ==
    IF a > b THEN 0 ELSE Number(s, a, b - 1) * 10 + DigitValue(Ch(s, b))

\* the character at position i of s is one of chars
InAt(s, i, chars) == i >= 1 /\ i <= Len(s) /\ Ch(s, i) \in chars

NonZero == Digits \ {"0"}

\* %d is (?P<d>3[0-1]|[1-2]\d|0[1-9]|[1-9]| [1-9]): the alternatives that match
\* at position i, in the order the re module tries them
DayAlternatives(s, i) ==
    LET Matches(a) ==
            CASE a = 1 -> InAt(s, i, {"3"}) /\ InAt(s, i + 1, {"0", "1"})
              [] a = 2 -> InAt(s, i, {"1", "2"}) /\ InAt(s, i + 1, Digits)
              [] a = 3 -> InAt(s, i, {"0"}) /\ InAt(s, i + 1, NonZero)
              [] a = 4 -> InAt(s, i, NonZero)
              [] a = 5 -> InAt(s, i, {" "}) /\ InAt(s, i + 1, NonZero)
    IN  SelectSeq(<<1, 2, 3, 4, 5>>, Matches)

DayLength(a) == IF a = 4 THEN 1 ELSE 2

\* int(found_dict['d']) of the alternative a matched at position i
DayValue(s, i, a) ==
    IF a = 4 THEN Number(s, i, i)
    ELSE IF a = 5 THEN Number(s, i + 1, i + 1)
    ELSE Number(s, i, i + 1)

\* %m is (?P<m>1[0-2]|0[1-9]|[1-9])
MonthAlternatives(s, i) ==
    LET Matches(a) ==
            CASE a = 1 -> InAt(s, i, {"1"}) /\ InAt(s, i + 1, {"0", "1", "2"})
              [] a = 2 -> InAt(s, i, {"0"}) /\ InAt(s, i + 1, NonZero)
              [] a = 3 -> InAt(s, i, NonZero)
    IN  SelectSeq(<<1, 2, 3>>, Matches)

MonthLength(a) == IF a = 3 THEN 1 ELSE 2

\* %Y is (?P<Y>\d\d\d\d)
YearAt(s, i) == \A k \in i..(i + 3) : InAt(s, k, Digits)

IsLeap(year) == year % 4 = 0 /\ (year % 100 # 0 \/ year % 400 = 0)

DaysIn(month, year) ==
    IF month = 2 THEN (IF IsLeap(year) THEN 29 ELSE 28)
    ELSE IF month \in {4, 6, 9, 11} THEN 30
    ELSE 31

\* the datetime of year, month and day; ValueError for a year 0 ('year 0 is
\* out of range') and for a day the month does not have
Date(year, month, day) ==
    IF year < 1 \/ day > DaysIn(month, year) THEN ValueError
    ELSE <<year, month, day>>

\* datetime.strptime(date_string, '%d/%m/%Y'): the first way, in the order of
\* the alternatives, in which the pattern matches a prefix of the string;
\* ValueError when there is none, when text is left after the match
\* ('unconverted data remains') and when the date does not exist
DayMonthYear(s) ==
    LET ways ==
            Flatten([n \in 1..Len(DayAlternatives(s, 1)) |->
                LET d  == DayAlternatives(s, 1)[n]
                    im == 1 + DayLength(d) + 1
                IN  IF ~InAt(s, im - 1, {"/"}) THEN <<>>
                    ELSE Flatten([k \in 1..Len(MonthAlternatives(s, im)) |->
                        LET m  == MonthAlternatives(s, im)[k]
                            iy == im + MonthLength(m) + 1
                        IN  IF InAt(s, iy - 1, {"/"}) /\ YearAt(s, iy)
                            THEN <<[d |-> d, im |-> im, m |-> m, iy |-> iy]>>
                            ELSE <<>>])])
    IN  IF ways = <<>> THEN ValueError
        ELSE LET w == ways[1]
             IN  IF w.iy + 3 # Len(s) THEN ValueError
                 ELSE Date(Number(s, w.iy, w.iy + 3),
                           Number(s, w.im, w.im + MonthLength(w.m) - 1),
                           DayValue(s, 1, w.d))

\* datetime.strptime(date_string, '%Y-%m-%d')
YearMonthDay(s) ==
    LET ways ==
            IF ~(YearAt(s, 1) /\ InAt(s, 5, {"-"})) THEN <<>>
            ELSE Flatten([k \in 1..Len(MonthAlternatives(s, 6)) |->
                     LET m  == MonthAlternatives(s, 6)[k]
                         id == 6 + MonthLength(m) + 1
                     IN  IF ~InAt(s, id - 1, {"-"}) THEN <<>>
                         ELSE [n \in 1..Len(DayAlternatives(s, id)) |->
                                  [m |-> m, id |-> id, d |-> DayAlternatives(s, id)[n]]]])
    IN  IF ways = <<>> THEN ValueError
        ELSE LET w == ways[1]
             IN  IF w.id + DayLength(w.d) - 1 # Len(s) THEN ValueError
                 ELSE Date(Number(s, 1, 4),
                           Number(s, 6, 6 + MonthLength(w.m) - 1),
                           DayValue(s, w.id, w.d))

strptime(date_string, format) ==
    IF format = "%d/%m/%Y" THEN DayMonthYear(date_string) ELSE YearMonthDay(date_string)

\* _parse_date without the inner try: the ValueError of the second format
\* goes to the caller
_parse_date_Propagates(date_str) ==
    IF strptime(date_str, "%d/%m/%Y") # ValueError
    THEN strptime(date_str, "%d/%m/%Y")
    ELSE strptime(date_str, "%Y-%m-%d")

\* _parse_date that reads the first format as month/day/year
_parse_date_MonthFirst(date_str) ==
    LET swapped == strptime(date_str, "%d/%m/%Y")
    IN  IF swapped # ValueError /\ swapped[3] <= 12
        THEN Date(swapped[1], swapped[3], swapped[2])
        ELSE IF strptime(date_str, "%Y-%m-%d") # ValueError
        THEN strptime(date_str, "%Y-%m-%d")
        ELSE <<2099, 12, 31>>

\* try DD/MM/YYYY, then YYYY-MM-DD, then the far future: each except catches
\* whatever strptime raises
_parse_date(date_str) ==
    IF strptime(date_str, "%d/%m/%Y") # ValueError
    THEN strptime(date_str, "%d/%m/%Y")
    ELSE IF strptime(date_str, "%Y-%m-%d") # ValueError
    THEN strptime(date_str, "%Y-%m-%d")
    ELSE <<2099, 12, 31>>

\* datetime.__lt__ of two keys
KeyLess(a, b) ==
    \/ a[1] < b[1]
    \/ a[1] = b[1] /\ a[2] < b[2]
    \/ a[1] = b[1] /\ a[2] = b[2] /\ a[3] < b[3]

\* sorted(dates, key=lambda d: AIMarkdownFormatter._parse_date(d)) computes
\* the key of every date; an exception of a key call ends the sort
SortKeys ==
    /\ pc = "sort"
    /\ LET ks == [i \in DOMAIN dates |-> _parse_date(dates[i])]
       IN  IF \E i \in DOMAIN ks : ks[i] = ValueError
           THEN /\ pc' = "raised"
                /\ raised' = "ValueError"
                /\ UNCHANGED keys
           ELSE /\ pc' = "sorted"
                /\ keys' = ks
                /\ UNCHANGED raised
    /\ UNCHANGED <<lines, pos, current_message, messages, query_type, candidates>>
    /\ UNCHANGED <<owner, dates>>
    /\ UNCHANGED <<returned, chunk_size, results, replies, output>>

-----------------------------------------------------------------------------
(* The transcripts of the model.                                           *)

MaxLines == 3

MaxRem == 4

M1 == "[01/02/2024, 09:15:00]"

M2 == "[31/01/2024, 10:00]"

\* the text of a line after its marker: every string over these characters
RemAlphabet == {"a", ":", " "}

RECURSIVE Strings(_, _)
Strings(alphabet, n) ==
    IF n = 0 THEN {""}
    ELSE LET S == Strings(alphabet, n - 1)
         IN  S \cup {s \o c : s \in S, c \in alphabet}

\* line bodies of the multi-line transcripts
BaseLines ==
    { M1 \o " Ann: hi",
      M2 \o " Bob joined",
      M2 \o " Bob:",
      "",
      "  ",
      "more: text  ",
      " " \o M1 \o " Ann: hi",
      "[1/02/2024, 09:15:00] Ann: hi" }

\* line bodies that follow the single marker line of the other transcripts
TailLines == {"", "a: a "}

RECURSIVE SeqsUpTo(_, _)
SeqsUpTo(S, n) ==
    IF n = 0 THEN {<<>>}
    ELSE LET T == SeqsUpTo(S, n - 1)
         IN  T \cup {Append(t, s) : t \in T, s \in S}

Bodies ==
    SeqsUpTo(BaseLines, MaxLines)
        \cup {<<M1 \o r>> : r \in Strings(RemAlphabet, MaxRem)}
        \cup {<<M1 \o r, t>> : r \in Strings(RemAlphabet, MaxRem), t \in TailLines}

\* The file iterator yields every line with its newline, except a last line
\* that the file does not end with a newline after.
WithNewlines(bodies, final) ==
    [i \in 1..Len(bodies) |->
        IF i = Len(bodies) /\ ~final THEN bodies[i] ELSE bodies[i] \o NL]

Transcripts ==
    {WithNewlines(b, TRUE) : b \in Bodies}
        \cup {WithNewlines(b, FALSE) : b \in {x \in Bodies : Len(x) > 0 /\ x[Len(x)] # ""}}

\* line bodies of the transcripts the extractors are run on
ExtractLines ==
    { M1 \o " Dana: Can you send the report by Friday?",
      M1 \o " Please review the agenda",
      M2 \o " Bob: see https://a.io/x and http://b.io",
      M1 \o " Ann: mood 8/10 @bob",
      M2 \o " Ann: We decided Bob will call today",
      M1 \o " Bob: - ok",
      "http://c.io docs" }

ExtractTranscripts == {WithNewlines(b, TRUE) : b \in SeqsUpTo(ExtractLines, MaxLines)}

\* n copies of s, one after the other
RECURSIVE Repeat(_, _)
Repeat(s, n) == IF n = 0 THEN "" ELSE s \o Repeat(s, n - 1)

\* a text longer than the 200 characters a context entry keeps
LongText == Repeat("abcdefghij", 21)

\* line bodies of the transcripts _extract_urls is run on: a long message, a
\* system message, a message with two URLs, a line of text with a URL (a
\* continuation line after a marker line) and a message with one URL twice
UrlLines ==
    { M1 \o " Ann: " \o LongText,
      M2 \o " Bob joined",
      M1 \o " Bob: see https://a.io/x and http://b.io",
      "docs http://c.io",
      M2 \o " Ann: <http://b.io> http://b.io" }

UrlTranscripts == {WithNewlines(b, TRUE) : b \in SeqsUpTo(UrlLines, MaxLines)}

\* line bodies of the transcripts _extract_checkins is run on: a keyword with
\* a score, a keyword alone, a score alone, a keyword with a bare number, and
\* a line of text with a score (a continuation line after a marker line)
CheckinLines ==
    { M1 \o " Ann: Mood 8/10",
      M1 \o " Cy: mood is fine",
      M2 \o " Cy: got 7/10",
      M2 \o " Bob: Check-in 5 done",
      "- 9" }

CheckinTranscripts == {WithNewlines(b, TRUE) : b \in SeqsUpTo(CheckinLines, MaxLines)}

\* line bodies of the transcripts extract() is called on more than once
RepeatLines ==
    { M1 \o " Dana: Can you send the report by Friday?",
      M1 \o " Please review the agenda",
      M2 \o " Bob: see https://a.io/x and http://b.io",
      "http://c.io docs" }

RepeatTranscripts == {WithNewlines(b, TRUE) : b \in SeqsUpTo(RepeatLines, MaxLines)}

\* the decimal digits of n, in a field of w characters
RECURSIVE Pad(_, _)
Pad(n, w) ==
    IF w = 0 THEN "" ELSE Pad(n \div 10, w - 1) \o Ch(DigitChars, (n % 10) + 1)

\* a date <<year, month, day>> written as DD/MM/YYYY and as YYYY-MM-DD
DayFirst(c) == Pad(c[3], 2) \o "/" \o Pad(c[2], 2) \o "/" \o Pad(c[1], 4)

Iso(c) == Pad(c[1], 4) \o "-" \o Pad(c[2], 2) \o "-" \o Pad(c[3], 2)

\* the years, and the days of the year, of the dates that are sorted: the
\* first and the last year, the year of the sentinel and the year after it
Years == {1, 2024, 2099, 2100, 9999}

MonthDays == {<<1, 31>>, <<2, 1>>, <<2, 29>>, <<12, 31>>}

CalendarDates == {<<y, md[1], md[2]>> : y \in Years, md \in MonthDays}

\* of these years only 2024 has a 29 February
ValidDates == {c \in CalendarDates : c[2] # 2 \/ c[3] # 29 \/ c[1] = 2024}

ValidSpellings == {DayFirst(c) : c \in ValidDates} \cup {Iso(c) : c \in ValidDates}

\* strings that are a date in neither format
Malformed ==
    { "", "not-a-date", "Unknown Date", "31/04/2024", "2024-02-30", "2024/02/01",
      "01-02-2024", "01/02/24", "00/01/2024", "01/13/2024", "01/01/0000",
      "0000-01-01", "01/02/2024 ", "2024-01-32", "01/02" }
        \cup {DayFirst(c) : c \in CalendarDates \ ValidDates}
        \cup {Iso(c) : c \in CalendarDates \ ValidDates}

\* other spellings strptime takes: days and months of one digit, a day with
\* a space for the first digit
Lenient == {"1/2/2024", " 1/02/2024", "2024-2-1", "2024-02- 1", "31/1/2024"}

DateStrings == ValidSpellings \cup Malformed \cup Lenient

Start(transcripts) ==
    /\ lines \in transcripts
    /\ pos = 0
    /\ current_message = <<>>
    /\ messages = <<>>
    /\ pc = "parse"
    /\ query_type = ""
    /\ candidates = <<>>
    /\ raised = ""
    /\ owner = <<>>
    /\ dates = <<>>
    /\ keys = <<>>
    /\ returned = <<>>
    /\ chunk_size = 0
    /\ results = <<>>
    /\ replies = <<>>
    /\ output = ""

\* parse(): one step for every line, and the return
ParseNext ==
    \/ MarkerLine
    \/ ContinuationLine
    \/ DroppedLine
    \/ EndOfInput

\* parse() and then extract(), as main() calls them
Next ==
    \/ ParseNext
    \/ \E query \in QueryTypes : Extract(query)

Init == Start(ExtractTranscripts)

Spec == Init /\ [][Next]_vars

\* the parser alone, on the transcripts that vary the text of the lines
InitParse == Start(Transcripts)

SpecParse == InitParse /\ [][ParseNext]_vars

\* parse() and then extract('urls')
NextUrls ==
    \/ ParseNext
    \/ Extract("urls")

InitUrls == Start(UrlTranscripts)

SpecUrls == InitUrls /\ [][NextUrls]_vars

\* parse() and then extract('checkins')
NextCheckins ==
    \/ ParseNext
    \/ Extract("checkins")

InitCheckins == Start(CheckinTranscripts)

SpecCheckins == InitCheckins /\ [][NextCheckins]_vars

\* parse() and then any number of extract() calls on the same extractor
NextRepeat ==
    \/ ParseNext
    \/ \E query \in QueryTypes : Extract(query)
    \/ Return

InitRepeat == Start(RepeatTranscripts)

SpecRepeat == InitRepeat /\ [][NextRepeat]_vars

\* a formatter sorts two dates by their keys
InitDates ==
    /\ dates \in DateStrings \X DateStrings
    /\ keys = <<>>
    /\ pc = "sort"
    /\ lines = <<>>
    /\ pos = 0
    /\ current_message = <<>>
    /\ messages = <<>>
    /\ query_type = ""
    /\ candidates = <<>>
    /\ raised = ""
    /\ owner = <<>>
    /\ returned = <<>>
    /\ chunk_size = 0
    /\ results = <<>>
    /\ replies = <<>>
    /\ output = ""

NextDates == SortKeys

SpecDates == InitDates /\ [][NextDates]_vars

\* The parsed messages are written back as marker lines, with or without a
\* newline after the last one, and a new ChatParser is opened on that text
\* (self.messages = [] in __init__, current_message = None and the iteration
\* over the lines of the file in parse).
WriteBack(final) ==
    LET MarkerLineOf(m) ==
            "[" \o m.timestamp \o "] "
                \o (IF m.sender = SYSTEM THEN m.content ELSE m.sender \o ": " \o m.content)
        text  == join([k \in 1..Len(messages) |-> MarkerLineOf(messages[k])], NL)
                     \o (IF final /\ messages # <<>> THEN NL ELSE "")
        parts == split(text, NL)
        n     == Len(parts)
    IN  /\ pc = "parsed"
        /\ Len(returned) = 1
        /\ output' = text
        /\ lines' = [i \in 1..(IF parts[n] = "" THEN n - 1 ELSE n) |->
                        IF i < n THEN parts[i] \o NL ELSE parts[i]]
        /\ pos' = 0
        /\ current_message' = <<>>
        /\ messages' = <<>>
        /\ pc' = "parse"
        /\ UNCHANGED <<query_type, candidates, raised, owner, dates, keys>>
        /\ UNCHANGED <<returned, chunk_size, results, replies>>

\* parse() and extract('questions') on transcripts with system lines that ask
\* and lines that hold an interrogative word inside a longer word
SpecQuestions ==
    Start({WithNewlines(b, TRUE) :
               b \in SeqsUpTo({ M1 \o " Who joined",
                                M2 \o " Bob left?",
                                M1 \o " Ann: WHAT now",
                                M1 \o " Ann: somewhat shown",
                                M2 \o " Bob: ok",
                                "and why" }, MaxLines)})
        /\ [][ParseNext \/ Extract("questions")]_vars

\* parse() called more than once on one ChatParser
SpecAgain == InitParse /\ [][ParseNext \/ ParseAgain]_vars

\* transcripts with a participant whose name is the word SYSTEM
InitRoundTrip ==
    Start({WithNewlines(b, final) :
               b \in SeqsUpTo({ M1 \o " Ann: hi",
                                M2 \o " Bob joined",
                                M1 \o " SYSTEM: a: b",
                                "",
                                "more: text  " }, MaxLines),
               final \in BOOLEAN})

\* parse(), the parsed messages written back, and parse() of that text
SpecRoundTrip ==
    InitRoundTrip /\ [][ParseNext \/ \E final \in BOOLEAN : WriteBack(final)]_vars

-----------------------------------------------------------------------------
(* OutputFormatter and the end of main() of chat_analyzer.py.               *)

\* str(n) of a natural number
RECURSIVE str(_)
str(n) ==
    IF n < 10 THEN Ch(DigitChars, n + 1)
    ELSE str(n \div 10) \o Ch(DigitChars, (n % 10) + 1)

\* sorted() of a set of strings: the order of str, character by character by
\* code point. The keys sorted are dates, which hold digits and '/' only
\* (code points 47 to 57).
RECURSIVE sorted(_)
sorted(S) ==
    LET Code(c)    == IndexOf("/0123456789", c)
        Less(a, b) ==
            \E k \in 1..(Len(b)) :
                /\ k <= Len(a) + 1
                /\ SubSeq(a, 1, k - 1) = SubSeq(b, 1, k - 1)
                /\ (k = Len(a) + 1 \/ Code(Ch(a, k)) < Code(Ch(b, k)))
        first      == CHOOSE a \in S : \A b \in S \ {a} : Less(a, b)
    IN  IF S = {} THEN <<>> ELSE <<first>> \o sorted(S \ {first})

\* OutputFormatter.to_markdown and the five formatters it dispatches to
to_markdown(cands, query) ==
    LET by_date(date) == LET OfDate(c) == c.date = date IN SelectSeq(cands, OfDate)
        order         == sorted({cands[k].date : k \in 1..Len(cands)})
        Cut(s, n)     == SubSeq(s, 1, IF Len(s) < n THEN Len(s) ELSE n)
                             \o (IF Len(s) > n THEN "..." ELSE "")
        title         ==
            CASE query = "urls"      -> "# URLs from Chat"
              [] query = "actions"   -> "# Action Items from Chat"
              [] query = "decisions" -> "# Decisions from Chat"
              [] query = "meetings"  -> "# Meetings from Chat"
              [] OTHER ->
                     "# " \o Ch(UpperSeq, IndexOf(LowerSeq, Ch(query, 1)))
                          \o From(query, 2) \o " from Chat"
        total         ==
            CASE query = "urls"      -> "*Total URLs found: "
              [] query = "actions"   -> "*Total potential actions found: "
              [] query = "decisions" -> "*Total decisions found: "
              [] query = "meetings"  -> "*Total meeting references found: "
              [] OTHER               -> "*Total items found: "
        Context(heading, context) ==
            IF context = <<>> THEN <<>>
            ELSE <<heading>>
                     \o [k \in 1..Len(context) |->
                            "- *" \o context[k].time \o " - " \o context[k].sender
                                  \o ":* " \o context[k].content]
                     \o <<"">>
        Url(item)     ==
            << "### " \o item.time \o " - " \o item.sender,
               "**URL:** [" \o item.url \o "](" \o item.url \o ")",
               "" >>
                \o Context("**Context (messages before):**", item.context_before)
                \o << "**Message:**", "> " \o Cut(item.full_message, 500), "" >>
                \o Context("**Context (messages after):**", item.context_after)
                \o << "---", "" >>
        Decision(item) ==
            << "### " \o item.time \o " - " \o item.sender, item.content, "" >>
        Listed(item)  ==
            << "- **" \o item.time \o "** - " \o item.sender \o ": "
                      \o Cut(item.content, 200) >>
        Items(date)   ==
            LET group == by_date(date)
            IN  IF query = "urls"
                THEN Flatten([k \in 1..Len(group) |-> Url(group[k])])
                ELSE IF query = "decisions"
                THEN Flatten([k \in 1..Len(group) |-> Decision(group[k])])
                ELSE Flatten([k \in 1..Len(group) |-> Listed(group[k])]) \o <<"">>
        lines_        ==
            << title, "", total \o str(Len(cands)) \o "*", "", "---", "" >>
                \o Flatten([k \in 1..Len(order) |->
                               << "## " \o order[k], "" >> \o Items(order[k])])
    IN  join(lines_, NL)

\* OutputFormatter.to_json: json.dumps(candidates, indent=2, ensure_ascii=False)
\* of dicts of strings, lists of strings and lists of context dicts, the keys
\* in the order the extractors insert them
to_json(cands) ==
    LET Escape(c) ==
            CASE c = "\"" -> Backslash \o "\""
              [] c = Backslash -> Backslash \o Backslash
              [] c = NL -> Backslash \o "n"
              [] c = "\t" -> Backslash \o "t"
              [] OTHER -> c
        String(s) == "\"" \o join([i \in 1..Len(s) |-> Escape(Ch(s, i))], "") \o "\""
        Block(open, close, parts, indent) ==
            IF parts = <<>> THEN open \o close
            ELSE open \o NL
                     \o join([k \in 1..Len(parts) |-> Repeat(" ", indent + 2) \o parts[k]],
                             "," \o NL)
                     \o NL \o Repeat(" ", indent) \o close
        Entry(ctx) ==
            Block("{", "}", << "\"sender\": " \o String(ctx.sender),
                               "\"content\": " \o String(ctx.content),
                               "\"time\": " \o String(ctx.time) >>, 6)
        Value(c, key) ==
            IF key \in {"mentions", "assigned_to"}
            THEN Block("[", "]", [k \in 1..Len(c[key]) |-> String(c[key][k])], 4)
            ELSE IF key \in {"context_before", "context_after"}
            THEN Block("[", "]", [k \in 1..Len(c[key]) |-> Entry(c[key][k])], 4)
            ELSE String(c[key])
        message == <<"timestamp", "sender", "content", "date", "time">>
        Keys(c) ==
            CASE c.type = "url" ->
                     << "timestamp", "date", "time", "sender", "url", "description",
                        "full_message", "context_before", "context_after", "type" >>
              [] c.type = "assignment" -> message \o <<"mentions", "assigned_to", "type">>
              [] c.type = "question" -> message \o <<"type">>
              [] c.type = "checkin" -> message \o <<"score", "type">>
              [] OTHER -> message \o <<"matched_pattern", "type">>
        Dict(c) ==
            Block("{", "}", [k \in 1..Len(Keys(c)) |->
                                String(Keys(c)[k]) \o ": " \o Value(c, Keys(c)[k])], 2)
    IN  Block("[", "]", [k \in 1..Len(cands) |-> Dict(cands[k])], 0)

\* main() after extract(): the statistics of --stats, or the content of the
\* chosen format, which is printed or written to the --output file. The match
\* rate is len(candidates)/len(messages)*100 with one decimal.
main(stats, format) ==
    LET thousandths == Len(candidates) * 1000
        q           == thousandths \div Len(messages)
        r           == thousandths % Len(messages)
        tenths      == IF 2 * r > Len(messages) \/ (2 * r = Len(messages) /\ q % 2 = 1)
                       THEN q + 1 ELSE q
    IN  /\ pc = "extracted"
        /\ IF stats /\ messages = <<>>
           THEN /\ raised' = "ZeroDivisionError: division by zero"
                /\ pc' = "raised"
                /\ UNCHANGED output
           ELSE /\ output' =
                       IF stats
                       THEN join(<< "", "Statistics:",
                                    "  Total messages: " \o str(Len(messages)),
                                    "  Matches found: " \o str(Len(candidates)),
                                    "  Match rate: " \o str(tenths \div 10) \o "."
                                        \o str(tenths % 10) \o "%" >>, NL)
                       ELSE IF format = "markdown"
                       THEN to_markdown(candidates, query_type)
                       ELSE to_json(candidates)
                /\ pc' = "done"
                /\ UNCHANGED raised
        /\ UNCHANGED <<lines, pos, current_message, messages, query_type, candidates>>
        /\ UNCHANGED <<owner, dates, keys, returned, chunk_size, results, replies>>

\* parse(), extract() and the output, as the main() of chat_analyzer.py calls them
SpecMain ==
    Init
        /\ [][\/ ParseNext
              \/ \E query \in QueryChoices : Extract(query)
              \/ \E stats \in BOOLEAN, format \in {"markdown", "json"} :
                     main(stats, format)]_vars

\* parse(), extract() and analyze_chunk(), as the main() of chat_analyzer_ai.py
\* calls them
SpecAnalyze ==
    InitRepeat
        /\ [][\/ ParseNext
              \/ \E query \in QueryChoices : Extract(query)
              \/ \E size \in 1..MaxChunkSize : analyze_chunk(size)
              \/ \E completion \in Completions : ProcessChunk(completion)]_vars

-----------------------------------------------------------------------------
(* Properties of ChatParser.parse                                           *)

IsMarker(l) == TIMESTAMP_PATTERN(l) > 0

\* the indices of the marker lines among the first n lines
MarkersIn(n) == {i \in 1..n : IsMarker(lines[i])}

\* the index of the k-th marker line
MarkerIndex(k) ==
    CHOOSE i \in MarkersIn(Len(lines)) : Cardinality(MarkersIn(i)) = k

\* the messages started so far, in the order they were started
Started == messages \o (IF pc = "parse" THEN current_message ELSE <<>>)

\* the text after the marker of a marker line, trimmed
RemainderOf(l) == strip(From(l, TIMESTAMP_PATTERN(l) + 1))

\* t is l without its trailing whitespace
IsRightTrimOf(t, l) ==
    \E n \in 0..Len(l) :
        /\ t = SubSeq(l, 1, n)
        /\ \A i \in (n + 1)..Len(l) : Ch(l, i) \in Whitespace
        /\ n = 0 \/ Ch(l, n) \notin Whitespace

\* C1: parse returns exactly one Message per marker line. At every point of
\* the loop the messages emitted and the open one are the messages of the
\* marker lines read so far, in order, each once (the open message is emitted
\* before the next one is started); when parse has returned, the list holds
\* one Message for every marker line of the transcript, the last one included.
C1_OneMessagePerMarker ==
    /\ Len(Started) = Cardinality(MarkersIn(pos))
    /\ pc = "parse" => Len(current_message) = (IF MarkersIn(pos) = {} THEN 0 ELSE 1)
    /\ pc # "parse" => Len(messages) = Cardinality(MarkersIn(Len(lines)))
    /\ \A k \in 1..Len(Started) :
           /\ Started[k].timestamp = timestamp_group(lines[MarkerIndex(k)])
           /\ At(Started[k].content \o NL, 1,
                 NewMessage(lines[MarkerIndex(k)]).content \o NL)

\* parse has returned two messages or more, one of them with a continuation line
C1_Witness ==
    /\ pc = "parsed"
    /\ Len(messages) >= 2
    /\ Len(lines) > Len(messages)
    /\ \E k \in 1..Len(messages) : Contains(messages[k].content, NL)

\* C2: a line without a marker, read while a message is open, creates no
\* Message: the messages already emitted stay as they are, and the open
\* message keeps its other fields and gets the line, without its trailing
\* whitespace, appended to its content after one newline.
C2_ContinuationAppends ==
    [][ (/\ pc = "parse"
         /\ pos < Len(lines)
         /\ ~IsMarker(lines[pos + 1])
         /\ current_message # <<>>)
        => (/\ messages' = messages
            /\ Len(current_message') = 1
            /\ current_message'[1].timestamp = current_message[1].timestamp
            /\ current_message'[1].sender = current_message[1].sender
            /\ current_message'[1].date = current_message[1].date
            /\ current_message'[1].time = current_message[1].time
            /\ \E t \in {SubSeq(lines[pos + 1], 1, n) : n \in 0..Len(lines[pos + 1])} :
                   /\ IsRightTrimOf(t, lines[pos + 1])
                   /\ current_message'[1].content =
                          current_message[1].content \o NL \o t) ]_vars

\* a line with text and trailing whitespace has just been appended to the
\* open message, after another message was emitted
C2_Witness ==
    /\ pc = "parse"
    /\ pos >= 3
    /\ ~IsMarker(lines[pos])
    /\ rstrip(lines[pos]) # ""
    /\ Len(rstrip(lines[pos])) + 1 < Len(lines[pos])
    /\ Len(messages) = 1
    /\ current_message # <<>>
    /\ Contains(current_message[1].content, NL)

\* the lines of a content
ContentLines(m) == split(m.content, NL)

\* the line at index i is the part of the content of message k that its
\* place after the k-th marker line gives it
AccountedIn(i, k) ==
    /\ k \in 1..Len(messages)
    /\ MarkerIndex(k) < i
    /\ \A j \in (MarkerIndex(k) + 1)..i : ~IsMarker(lines[j])
    /\ i - MarkerIndex(k) + 1 <= Len(ContentLines(messages[k]))
    /\ IsRightTrimOf(ContentLines(messages[k])[i - MarkerIndex(k) + 1], lines[i])

\* C3 as claimed: every line that is not a marker line is accounted for in
\* the content of exactly one parsed Message.
C3_EveryLineAccounted ==
    pc = "parsed" =>
        \A i \in 1..Len(lines) :
            ~IsMarker(lines[i]) =>
                Cardinality({k \in 1..Len(messages) : AccountedIn(i, k)}) = 1

\* C3 as amended: every line that is not a marker line and comes after the
\* first marker line is accounted for in the content of exactly one parsed
\* Message, and a content holds no other line than the text of its marker
\* line and the lines accounted for in it.
C3_LinesAfterFirstMarkerAccounted ==
    pc = "parsed" =>
        /\ \A i \in 1..Len(lines) :
               (~IsMarker(lines[i]) /\ MarkersIn(i) # {}) =>
                   Cardinality({k \in 1..Len(messages) : AccountedIn(i, k)}) = 1
        /\ \A k \in 1..Len(messages) :
               Len(ContentLines(messages[k])) =
                   1 + Cardinality({i \in 1..Len(lines) : AccountedIn(i, k)})

\* a parsed transcript with a line before the first marker and a line of
\* text after it
C3_Witness ==
    /\ pc = "parsed"
    /\ Len(lines) >= 3
    /\ ~IsMarker(lines[1])
    /\ IsMarker(lines[2])
    /\ ~IsMarker(lines[3])
    /\ rstrip(lines[3]) # ""
    /\ Len(messages) = 1

\* C4: the lines before the first marker line are dropped. As long as no
\* marker line has been read no message is open and none is emitted; when
\* parse has returned, the contents hold as many lines as the transcript has
\* from its first marker line on, so that no line before it is in a content.
C4_PreambleDropped ==
    /\ MarkersIn(pos) = {} => (messages = <<>> /\ current_message = <<>>)
    /\ (pc = "parsed" /\ MarkersIn(Len(lines)) # {}) =>
           /\ messages[1].timestamp = timestamp_group(lines[MarkerIndex(1)])
           /\ LET Count[k \in 0..Len(messages)] ==
                      IF k = 0 THEN 0
                      ELSE Count[k - 1] + Len(ContentLines(messages[k]))
              IN  Count[Len(messages)] = Len(lines) - MarkerIndex(1) + 1

\* parse has returned messages for a transcript that starts with two lines
\* of text
C4_Witness ==
    /\ pc = "parsed"
    /\ Len(lines) >= 3
    /\ ~IsMarker(lines[1]) /\ rstrip(lines[1]) # ""
    /\ ~IsMarker(lines[2]) /\ rstrip(lines[2]) # ""
    /\ Len(messages) >= 1

EndsWithNewline(s) == Len(s) >= 1 /\ Ch(s, Len(s)) = NL

\* C5: no parsed Message has a content that ends with a newline, that is with
\* an empty last line, also when blank lines follow the message.
C5_NoTrailingBlankLine ==
    pc = "parsed" => \A k \in 1..Len(messages) : ~EndsWithNewline(messages[k].content)

\* the remainder has the form Name: text, its first colon at position p
HasSenderPrefix(rem) ==
    /\ IndexOf(rem, ":") >= 2
    /\ strip(From(rem, IndexOf(rem, ":") + 1)) # ""

\* the marker line just read has started the open message
JustStarted == pc = "parse" /\ pos >= 1 /\ IsMarker(lines[pos])

\* C6: for a marker line whose remainder is Name: text the split is on the
\* first colon of the remainder: sender is the trimmed text before it, content
\* the trimmed text after it, and the sender holds no colon.
C6_SplitOnFirstColon ==
    (JustStarted /\ HasSenderPrefix(RemainderOf(lines[pos]))) =>
        LET rem == RemainderOf(lines[pos])
            p   == IndexOf(rem, ":")
            m   == current_message[1]
        IN  /\ m.sender = strip(SubSeq(rem, 1, p - 1))
            /\ m.content = strip(From(rem, p + 1))
            /\ ~Contains(m.sender, ":")

\* a marker line with two colons has been read: the second one, with the text
\* after it, is in the content
C6_Witness ==
    /\ JustStarted
    /\ HasSenderPrefix(RemainderOf(lines[pos]))
    /\ current_message[1].sender = "a"
    /\ Contains(current_message[1].content, ":a")

\* C7: for a marker line whose remainder has no colon-delimited sender prefix
\* the sender is SYSTEM and the content is the whole trimmed remainder.
C7_SystemMessage ==
    (JustStarted /\ ~HasSenderPrefix(RemainderOf(lines[pos]))) =>
        /\ current_message[1].sender = "SYSTEM"
        /\ current_message[1].content = RemainderOf(lines[pos])

\* a marker line with text and no colon has been read
C7_Witness ==
    /\ JustStarted
    /\ RemainderOf(lines[pos]) # ""
    /\ ~Contains(RemainderOf(lines[pos]), ":")
    /\ current_message[1].sender = "SYSTEM"

-----------------------------------------------------------------------------
(* Properties of CandidateExtractor.extract                                 *)

EightCategories ==
    {"actions", "urls", "decisions", "questions", "meetings", "deadlines",
     "assignments", "checkins"}

\* C8: extract with a name that is not one of the eight categories raises a
\* ValueError whose message names the eight categories, and returns nothing;
\* with one of the eight it returns a list and raises nothing.
C8_UnknownCategoryRaises ==
    /\ pc = "raised" =>
           /\ query_type \notin EightCategories
           /\ At(raised, 1, "ValueError")
           /\ Contains(raised, query_type)
           /\ \A c \in EightCategories : Contains(raised, "'" \o c \o "'")
    /\ pc = "extracted" =>
           /\ query_type \in EightCategories
           /\ raised = ""
    /\ pc \in {"parse", "parsed"} => query_type = ""

\* extract was called with an unknown name over a transcript with messages
C8_Witness ==
    /\ pc = "raised"
    /\ query_type = "action"
    /\ Len(messages) >= 2

\* the Message fields of a candidate of a category other than urls
MessageOf(c) ==
    [timestamp |-> c.timestamp, sender |-> c.sender, content |-> c.content,
     date |-> c.date, time |-> c.time]

\* the candidates k, k + 1, ... are messages of indices above i, in
\* increasing order of index
RECURSIVE InMessageOrder(_, _, _)
InMessageOrder(cands, k, i) ==
    IF k > Len(cands) THEN TRUE
    ELSE LET J == {j \in (i + 1)..Len(messages) : MessageOf(cands[k]) = messages[j]}
         IN  J # {} /\ InMessageOrder(cands, k + 1, Min(J))

\* the url of candidate c occurs at position p of the content of message j
UrlOccursAt(c, j, p) ==
    /\ c.timestamp = messages[j].timestamp
    /\ c.sender = messages[j].sender
    /\ c.full_message = messages[j].content
    /\ At(messages[j].content, p, c.url)
    /\ \/ p + Len(c.url) = Len(messages[j].content) + 1
       \/ Ch(messages[j].content, p + Len(c.url)) \in UrlStop

\* the url candidates k, k + 1, ... occur after position p0 of message j0, in
\* increasing order of message index and, in one message, of position
RECURSIVE InUrlOrder(_, _, _, _)
InUrlOrder(cands, k, j0, p0) ==
    IF k > Len(cands) THEN TRUE
    ELSE LET After(j) == {p \in 1..Len(messages[j].content) :
                             UrlOccursAt(cands[k], j, p) /\ (j > j0 \/ p > p0)}
             J        == {j \in 1..Len(messages) : j >= j0 /\ After(j) # {}}
         IN  J # {} /\ InUrlOrder(cands, k + 1, Min(J), Min(After(Min(J))))

\* C9: the candidates extract returns are in the input order of their source
\* messages. For the seven categories other than urls they are messages of
\* strictly increasing index (at most one candidate per message); for urls
\* they are in the order of the message index and, in one message, of the
\* position of the URL in the content.
C9_CandidatesInInputOrder ==
    pc = "extracted" =>
        IF query_type = "urls"
        THEN InUrlOrder(candidates, 1, 0, 0)
        ELSE /\ Len(candidates) <= Len(messages)
             /\ InMessageOrder(candidates, 1, 0)

\* urls returned three candidates or more, two URLs of one message among them
C9_Witness ==
    /\ pc = "extracted"
    /\ query_type = "urls"
    /\ Len(candidates) >= 3
    /\ \E k \in 1..(Len(candidates) - 1) :
           /\ candidates[k].full_message = candidates[k + 1].full_message
           /\ candidates[k].url # candidates[k + 1].url
    /\ \E k \in 1..(Len(candidates) - 1) :
           candidates[k].full_message # candidates[k + 1].full_message

\* at least one action pattern matches the content, case ignored
AnyActionPattern(content) ==
    \E k \in DOMAIN action_patterns : search(action_patterns[k].re, TRUE, content)

IsActionMessage(m) == m.sender # "SYSTEM" /\ AnyActionPattern(m.content)

\* C10: extract('actions') returns no candidate whose sender is SYSTEM, and
\* the messages it returns are the messages that are not system messages and
\* whose content at least one action pattern matches, all of them.
C10_ActionsExcludeSystem ==
    (pc = "extracted" /\ query_type = "actions") =>
        /\ \A k \in 1..Len(candidates) : candidates[k].sender # "SYSTEM"
        /\ [k \in 1..Len(candidates) |-> MessageOf(candidates[k])]
               = SelectSeq(messages, IsActionMessage)

\* actions returned a candidate and left out a system message that an action
\* pattern matches and a message of a sender that none matches
C10_Witness ==
    /\ pc = "extracted"
    /\ query_type = "actions"
    /\ Len(candidates) >= 1
    /\ \E k \in 1..Len(messages) :
           messages[k].sender = "SYSTEM" /\ AnyActionPattern(messages[k].content)
    /\ \E k \in 1..Len(messages) :
           messages[k].sender # "SYSTEM" /\ ~AnyActionPattern(messages[k].content)

-----------------------------------------------------------------------------
(* Properties of CandidateExtractor._extract_urls                           *)

\* the maximal runs of characters of s outside UrlStop, as <<first, last>>
Tokens(s) ==
    LET firsts  == {a \in 1..Len(s) :
                       /\ Ch(s, a) \notin UrlStop
                       /\ a = 1 \/ Ch(s, a - 1) \in UrlStop}
        last(a) == Min({b \in a..Len(s) : b = Len(s) \/ Ch(s, b + 1) \in UrlStop})
    IN  {<<a, last(a)>> : a \in firsts}

\* the positions of the run t of s at which http:// or https:// stands with
\* at least one character of the run after it
UrlStartsIn(s, t) ==
    {p \in t[1]..t[2] : \/ At(s, p, "http://") /\ p + 7 <= t[2]
                        \/ At(s, p, "https://") /\ p + 8 <= t[2]}

\* the URL tokens of s: the runs that hold a URL
UrlTokens(s) == {t \in Tokens(s) : UrlStartsIn(s, t) # {}}

\* the text of the n-th URL token of s: from its scheme to the end of the run
NthUrl(s, n) ==
    LET t == CHOOSE u \in UrlTokens(s) :
                 Cardinality({v \in UrlTokens(s) : v[1] < u[1]}) = n - 1
    IN  SubSeq(s, Min(UrlStartsIn(s, t)), t[2])

\* the number of URL tokens of message j
UrlCount(j) == Cardinality(UrlTokens(messages[j].content))

\* the number of URL tokens of the messages 1..j
RECURSIVE UrlsUpTo(_)
UrlsUpTo(j) == IF j = 0 THEN 0 ELSE UrlsUpTo(j - 1) + UrlCount(j)

\* C11: extract('urls') yields one candidate per URL occurrence, not per
\* message: the number of candidates is the number of URL tokens of all the
\* messages, and the n-th URL of message j gives a candidate of its own whose
\* url is that URL and whose timestamp, sender, date and time are those of
\* message j, so that a message with two distinct URLs gives two candidates
\* with distinct url fields and the same timestamp, sender, date and time.
C11_OneCandidatePerUrl ==
    (pc = "extracted" /\ query_type = "urls") =>
        /\ Len(candidates) = UrlsUpTo(Len(messages))
        /\ \A j \in 1..Len(messages) : \A n \in 1..UrlCount(j) :
               LET c == candidates[UrlsUpTo(j - 1) + n]
               IN  /\ c.url = NthUrl(messages[j].content, n)
                   /\ c.timestamp = messages[j].timestamp
                   /\ c.sender = messages[j].sender
                   /\ c.date = messages[j].date
                   /\ c.time = messages[j].time

\* urls returned the two candidates of a message with two distinct URLs,
\* after a message without a URL and before the candidate of another message
C11_Witness ==
    /\ pc = "extracted"
    /\ query_type = "urls"
    /\ Len(messages) = 3
    /\ UrlCount(1) = 0
    /\ UrlCount(2) = 2
    /\ UrlCount(3) >= 1
    /\ Len(candidates) >= 3
    /\ candidates[1].url # candidates[2].url
    /\ candidates[1].timestamp = candidates[2].timestamp
    /\ candidates[1].sender = candidates[2].sender

\* the index of the message the k-th url candidate is taken from
SourceOf(k) ==
    CHOOSE j \in 1..Len(messages) : UrlsUpTo(j - 1) < k /\ k <= UrlsUpTo(j)

NotSystem(m) == m.sender # "SYSTEM"

\* the messages of the indices lo..hi that are not system messages, in order
NonSystemIn(lo, hi) ==
    SelectSeq(SubSeq(messages, IF lo < 1 THEN 1 ELSE lo,
                               IF hi > Len(messages) THEN Len(messages) ELSE hi),
              NotSystem)

\* the context entries are the entries of the messages ms, in their order:
\* sender and time of the message and the first 200 characters of its content
IsContextOf(entries, ms) ==
    /\ Len(entries) = Len(ms)
    /\ \A n \in 1..Len(ms) :
           /\ DOMAIN entries[n] = {"sender", "content", "time"}
           /\ entries[n].sender = ms[n].sender
           /\ entries[n].time = ms[n].time
           /\ Len(entries[n].content) =
                  (IF Len(ms[n].content) > 200 THEN 200 ELSE Len(ms[n].content))
           /\ At(ms[n].content, 1, entries[n].content)

OwnDescription(content, url) ==
    LET content_lines == split(content, NL)
        k == Min({n \in DOMAIN content_lines : Contains(content_lines[n], url)})
    IN  strip(Remove(content_lines[k], url))

\* C13: the description of every url candidate is the content line of its
\* source message that contains the candidate's own URL, with that URL
\* removed and the rest trimmed, also for the second and later URLs of a
\* message.
C13_DescriptionOfOwnUrl ==
    (pc = "extracted" /\ query_type = "urls") =>
        \A k \in 1..Len(candidates) :
            candidates[k].description =
                OwnDescription(messages[SourceOf(k)].content, candidates[k].url)

-----------------------------------------------------------------------------
(* Properties of CandidateExtractor._extract_checkins                       *)

\* a check-in or mood keyword is in the content, case ignored
HasKeyword(content) ==
    \E kw \in {"check in", "checkin", "check-in", "mood"} : Contains(lower(content), kw)

\* the characters a..b of s are digits, at least one
IsNumber(s, a, b) == a <= b /\ \A i \in a..b : Ch(s, i) \in Digits

IsSpace(s, a, b) == \A i \in a..b : Ch(s, i) \in Whitespace

\* N/10
HasOutOfTen(s) == \E a, b \in 1..Len(s) : IsNumber(s, a, b) /\ At(s, b + 1, "/10")

\* a dash, a number and then an opening parenthesis or the end of the text
HasDashNumber(s) ==
    \E p, a, b \in 1..Len(s) :
        /\ Ch(s, p) = "-"
        /\ p < a
        /\ IsSpace(s, p + 1, a - 1)
        /\ IsNumber(s, a, b)
        /\ \/ b = Len(s)
           \/ b + 1 = Len(s) /\ Ch(s, Len(s)) = NL
           \/ \E q \in (b + 1)..Len(s) : IsSpace(s, b + 1, q - 1) /\ Ch(s, q) = "("

\* mood, whitespace or colons, and a number
HasMoodNumber(s) ==
    \E p, a \in 1..Len(s) :
        /\ At(s, p, "mood")
        /\ p + 4 < a
        /\ \A i \in (p + 4)..(a - 1) : Ch(s, i) \in Whitespace \cup {":"}
        /\ Ch(s, a) \in Digits

\* a numeric score pattern matches the content, case ignored
HasScore(content) ==
    LET s == lower(content)
    IN  HasOutOfTen(s) \/ HasDashNumber(s) \/ HasMoodNumber(s)

IsCheckin(m) == HasKeyword(m.content) /\ HasScore(m.content)

\* C14: extract('checkins') returns a message only when its content holds a
\* check-in/mood keyword and a numeric score pattern matches it, and returns
\* every such message: a keyword without a score and a score without a
\* keyword give no candidate.
C14_CheckinsNeedKeywordAndScore ==
    (pc = "extracted" /\ query_type = "checkins") =>
        /\ [k \in 1..Len(candidates) |-> MessageOf(candidates[k])]
               = SelectSeq(messages, IsCheckin)
        /\ \A k \in 1..Len(candidates) :
               HasKeyword(candidates[k].content) /\ HasScore(candidates[k].content)

\* checkins returned one candidate of three messages: one has a keyword and
\* no score, one a score and no keyword
C14_Witness ==
    /\ pc = "extracted"
    /\ query_type = "checkins"
    /\ Len(messages) = 3
    /\ Len(candidates) = 1
    /\ \E k \in 1..3 : HasKeyword(messages[k].content) /\ ~HasScore(messages[k].content)
    /\ \E k \in 1..3 : ~HasKeyword(messages[k].content) /\ HasScore(messages[k].content)

-----------------------------------------------------------------------------
(* Frame of CandidateExtractor.extract                                      *)

\* C15: no extract call, whatever came before it and whatever its category,
\* changes the Message sequence of the extractor (length, order and field
\* values stay), and every candidate is a record of its own, never the
\* record of a message, so that a change of a candidate's field cannot reach
\* a Message.
C15_ExtractLeavesMessages ==
    /\ [](\A k \in DOMAIN owner : owner[k] = 0)
    /\ [][pc # "parse" => messages' = messages]_vars

\* a second extract call has raised after a first one returned two candidates
\* or more
C15_Witness ==
    /\ pc = "raised"
    /\ Len(messages) >= 2
    /\ Len(candidates) >= 2
    /\ Len(owner) = Len(candidates)
    /\ candidates[1] # candidates[2]

\* the fields of a Message
MessageFields == {"timestamp", "sender", "content", "date", "time"}

\* C16: every candidate of every category extends its source Message: it has
\* the five Message fields timestamp, sender, content, date and time, with
\* the values they have in a message of the sequence.
C16_CandidateExtendsMessage ==
    pc = "extracted" =>
        \A k \in 1..Len(candidates) :
            /\ MessageFields \subseteq DOMAIN candidates[k]
            /\ \E j \in 1..Len(messages) : MessageOf(candidates[k]) = messages[j]

-----------------------------------------------------------------------------
(* Properties of AIMarkdownFormatter._parse_date                            *)

\* the days from the start of the calendar, counted in months of 31 days
DayNumber(c) == (c[1] * 12 + c[2]) * 31 + c[3]

Spellings(c) == {DayFirst(c), Iso(c)}

\* C17: for two valid calendar dates, each written as DD/MM/YYYY or as
\* YYYY-MM-DD, the key of the earlier date is strictly smaller than the key of
\* the later one, and two spellings of one date have equal keys; the key of
\* 31/01/2024 is smaller than the key of 01/02/2024.
C17_DateKeyOrdersDates ==
    pc = "sorted" =>
        /\ \A a, b \in ValidDates :
               (dates[1] \in Spellings(a) /\ dates[2] \in Spellings(b)) =>
                   /\ DayNumber(a) < DayNumber(b) => KeyLess(keys[1], keys[2])
                   /\ a = b => keys[1] = keys[2]
        /\ dates = <<"31/01/2024", "01/02/2024">> => KeyLess(keys[1], keys[2])

\* the keys of 31/01/2024 and of 2024-02-01 have been computed
C17_Witness ==
    /\ pc = "sorted"
    /\ dates = <<"31/01/2024", "2024-02-01">>
    /\ KeyLess(keys[1], keys[2])

\* C18: the key of a string that is a date in neither format is greater than
\* the key of every valid date of the years 0001 to 9999.
C18_UnparseableSortsLast ==
    (pc = "sorted" /\ dates[1] \in Malformed /\ dates[2] \in ValidSpellings) =>
        KeyLess(keys[2], keys[1])

\* C19: the key function never raises: every input, also a malformed and an
\* empty string, gets a key, and the inputs that are a date in neither format
\* all get the same fixed key, 31 December 2099.
C19_DateKeyNeverRaises ==
    /\ pc # "raised"
    /\ pc = "sorted" =>
           /\ \A i \in 1..2 : Len(keys[i]) = 3
           /\ \A i \in 1..2 : dates[i] \in Malformed => keys[i] = <<2099, 12, 31>>
           /\ (dates[1] \in Malformed /\ dates[2] \in Malformed) => keys[1] = keys[2]

\* the keys of the empty string and of a text have been computed
C19_Witness ==
    /\ pc = "sorted"
    /\ dates = <<"", "not-a-date">>
    /\ keys[1] = keys[2]

-----------------------------------------------------------------------------
(* No data                                                                  *)

\* C20: a transcript that is empty or has no marker line parses to an empty
\* Message sequence, and over an empty Message sequence extract returns an
\* empty list, and raises nothing, for each of the eight categories.
C20_NoDataIsEmpty ==
    /\ (pc # "parse" /\ MarkersIn(Len(lines)) = {}) => messages = <<>>
    /\ (pc \in {"extracted", "raised"} /\ messages = <<>>
            /\ query_type \in EightCategories) =>
           /\ pc = "extracted"
           /\ candidates = <<>>
           /\ raised = ""

\* urls was extracted from a transcript of three lines of text with URLs and
\* no marker
C20_Witness ==
    /\ pc = "extracted"
    /\ query_type = "urls"
    /\ Len(lines) = 3
    /\ \A i \in 1..3 : ~IsMarker(lines[i]) /\ Contains(lines[i], "http://")
    /\ messages = <<>>
    /\ candidates = <<>>

-----------------------------------------------------------------------------
(***************************************************************************)
(* Properties of the pattern-list categories                               *)
(***************************************************************************)
PatternListCategories == {"actions", "decisions", "meetings", "deadlines"}

PatternListOf(query) ==
    CASE query = "actions"   -> action_patterns
      [] query = "decisions" -> decision_patterns
      [] query = "meetings"  -> meeting_patterns
      [] query = "deadlines" -> deadline_patterns

\* the patterns of the category's list that match the lowercased content
MatchingPatterns(query, m) ==
    {k \in DOMAIN PatternListOf(query) :
         search(PatternListOf(query)[k].re, TRUE, lower(m.content))}

\* the message and the pattern text recorded for it: the first of the list
\* that matches
FirstPatternOf(query, m) ==
    <<m, PatternListOf(query)[Min(MatchingPatterns(query, m))].text>>

RecordedPatterns ==
    [k \in 1..Len(candidates) |-> <<MessageOf(candidates[k]), candidates[k].matched_pattern>>]

ModalVerbPattern == "\\b(can you|could you|please|need to|have to|should|must)\\b"

\* C21 as stated: in each of actions, decisions, meetings and deadlines the
\* candidates are, in order, one per message that some pattern of the list
\* matches on its lowercased content, whoever its sender is, each recording
\* the first pattern of the list that matches.
C21_AnyPatternQualifies ==
    (pc = "extracted" /\ query_type \in PatternListCategories) =>
        LET Qualifies(m) == MatchingPatterns(query_type, m) # {}
            qualified    == SelectSeq(messages, Qualifies)
        IN  RecordedPatterns
                = [k \in 1..Len(qualified) |-> FirstPatternOf(query_type, qualified[k])]

\* C21 (amended): the same, a message of the SYSTEM sender qualifying in
\* decisions, meetings and deadlines only: actions leaves it out.
C21_FirstMatchingPattern ==
    (pc = "extracted" /\ query_type \in PatternListCategories) =>
        LET Qualifies(m) ==
                /\ MatchingPatterns(query_type, m) # {}
                /\ query_type = "actions" => m.sender # "SYSTEM"
            qualified    == SelectSeq(messages, Qualifies)
        IN  RecordedPatterns
                = [k \in 1..Len(qualified) |-> FirstPatternOf(query_type, qualified[k])]

\* actions returned the message 'Can you send the report by Friday?', which
\* the modal-verb pattern and the later deadline pattern both match, with the
\* modal-verb pattern recorded
C21_Witness ==
    /\ pc = "extracted"
    /\ query_type = "actions"
    /\ \E k \in 1..Len(candidates) :
           /\ candidates[k].content = "Can you send the report by Friday?"
           /\ Cardinality(MatchingPatterns("actions", MessageOf(candidates[k]))) >= 2
           /\ candidates[k].matched_pattern = ModalVerbPattern

-----------------------------------------------------------------------------
(***************************************************************************)
(* Properties of repeated parsing                                           *)
(***************************************************************************)
\* C22: when the parsed messages are written back as marker lines and that
\* text is parsed again, the second parse returns as many messages as the
\* first, each with the timestamp, sender and content of the first parse.
C22_RoundTrip ==
    (pc = "parsed" /\ Len(returned) = 2) =>
        /\ Len(returned[2]) = Len(returned[1])
        /\ \A k \in 1..Len(returned[1]) :
               /\ returned[2][k].timestamp = returned[1][k].timestamp
               /\ returned[2][k].sender = returned[1][k].sender
               /\ returned[2][k].content = returned[1][k].content

\* C25: a second parse() call on the same ChatParser returns the list of
\* messages the first call returned: the same messages in the same order, as
\* many of them, none a second time.
C25_SecondParseSame ==
    Len(returned) >= 2 => returned[2] = returned[1]

-----------------------------------------------------------------------------
(***************************************************************************)
(* Properties of AIAnalyzer.analyze_chunk                                   *)
(***************************************************************************)
\* the j-th chunk of the candidates, chunks counted from 1
ChunkAt(j) ==
    SubSeq(candidates, (j - 1) * chunk_size + 1,
           IF j * chunk_size < Len(candidates) THEN j * chunk_size ELSE Len(candidates))

\* the call fails, or the reply is not JSON
CallOrParsingFails(completion) ==
    \/ completion[1] = "raises"
    \/ completion[2] \in {Fence \o "json" \o NL \o "[{", "Sorry"}

\* item is the candidate with an error field added
IsTagged(item, candidate) ==
    /\ DOMAIN item = DOMAIN candidate \cup {"error"}
    /\ \A f \in DOMAIN candidate : item[f] = candidate[f]

\* C23: analyze_chunk with a chunk size of 1 or more never raises: whatever
\* the replies are, the results are the results of the chunks processed so
\* far in chunk order, a chunk whose call or reply parsing failed giving its
\* own items, each with an error field added, and when it returns every
\* candidate has been in exactly one chunk.
C23_ChunksInOrder ==
    (pc \in {"analyze", "analyzed", "raised"} /\ chunk_size >= 1) =>
        /\ pc # "raised"
        /\ results = Flatten([j \in 1..Len(replies) |->
                                  _analyze_single_chunk(ChunkAt(j), replies[j]).value])
        /\ \A j \in 1..Len(replies) :
               CallOrParsingFails(replies[j]) =>
                   LET result == _analyze_single_chunk(ChunkAt(j), replies[j]).value
                   IN  /\ Len(result) = Len(ChunkAt(j))
                       /\ \A k \in 1..Len(result) : IsTagged(result[k], ChunkAt(j)[k])
        /\ pc = "analyzed" =>
               Flatten([j \in 1..Len(replies) |-> ChunkAt(j)]) = candidates

-----------------------------------------------------------------------------
(***************************************************************************)
(* Properties of the output of main()                                      *)
(***************************************************************************)
IsMarkdown(text) == At(text, 1, "# ")

IsHeading(l) == At(l, 1, "## ")

\* the line that opens the item of candidate c in the markdown of a category
ItemHead(c) ==
    IF c.type \in {"url", "decision"} THEN "### " \o c.time \o " - " \o c.sender
    ELSE "- **" \o c.time \o "** - " \o c.sender \o ": "

IsItemHead(l) == At(l, 1, "### ") \/ At(l, 1, "- **")

\* the places of the date headings among the lines ls, in increasing order
HeadingPlaces(ls) ==
    LET Heads(i) == IsHeading(ls[i]) IN SelectSeq([i \in 1..Len(ls) |-> i], Heads)

\* C24: in the markdown of to_markdown there is one heading for every date of
\* the candidates, the headings follow one another in increasing order of the
\* date key, and the items under a heading are the candidates of that date in
\* their order among the candidates.
C24_GroupsInDateOrder ==
    (pc = "done" /\ IsMarkdown(output)) =>
        LET ls      == split(output, NL)
            places  == HeadingPlaces(ls)
            DateAt(k) == From(ls[places[k]], 4)
            End(k)  == IF k = Len(places) THEN Len(ls) ELSE places[k + 1] - 1
        IN  /\ {DateAt(k) : k \in 1..Len(places)}
                   = {candidates[n].date : n \in 1..Len(candidates)}
            /\ \A j, k \in 1..Len(places) :
                   j < k => KeyLess(_parse_date(DateAt(j)), _parse_date(DateAt(k)))
            /\ \A k \in 1..Len(places) :
                   LET OfDate(c) == c.date = DateAt(k)
                       group     == SelectSeq(candidates, OfDate)
                       items     == SelectSeq(SubSeq(ls, places[k] + 1, End(k)), IsItemHead)
                   IN  /\ Len(items) = Len(group)
                       /\ \A n \in 1..Len(group) : At(items[n], 1, ItemHead(group[n]))

\* C26: after parse() and extract() of a category of the command line, the
\* statistics and both formats complete: main() raises no exception, whatever
\* the transcript is, one without a message included.
C26_PipelineCompletes ==
    /\ pc # "raised"
    /\ raised = ""

-----------------------------------------------------------------------------
(***************************************************************************)
(* Properties of the questions and checkins categories                      *)
(***************************************************************************)
InterrogativeWords == {"what", "why", "how", "when", "where", "who", "which"}

\* word w stands in s at position i as a whole word, in any letter case
WholeWordAt(s, i, w) ==
    /\ i + Len(w) - 1 <= Len(s)
    /\ lower(SubSeq(s, i, i + Len(w) - 1)) = w
    /\ (i = 1 \/ Ch(s, i - 1) \notin WordChars)
    /\ (i + Len(w) - 1 = Len(s) \/ Ch(s, i + Len(w)) \notin WordChars)

IsQuestion(m) ==
    \/ \E i \in 1..Len(m.content) : Ch(m.content, i) = "?"
    \/ \E w \in InterrogativeWords : \E i \in 1..Len(m.content) :
           WholeWordAt(m.content, i, w)

\* C27: extract('questions') returns, in order, the messages whose content
\* holds a question mark or an interrogative word as a whole word in any
\* letter case, the messages of the SYSTEM sender among them, and no other.
C27_QuestionsIncludeSystem ==
    (pc = "extracted" /\ query_type = "questions") =>
        [k \in 1..Len(candidates) |-> MessageOf(candidates[k])]
            = SelectSeq(messages, IsQuestion)

\* questions returned a system message and a message with an interrogative
\* word in capitals, and left out a message that holds 'what' and 'how' only
\* inside longer words
C27_Witness ==
    /\ pc = "extracted"
    /\ query_type = "questions"
    /\ \E k \in 1..Len(candidates) : candidates[k].sender = "SYSTEM"
    /\ \E k \in 1..Len(candidates) : candidates[k].content = "WHAT now"
    /\ \E k \in 1..Len(messages) :
           /\ messages[k].content = "somewhat shown"
           /\ \A j \in 1..Len(candidates) : MessageOf(candidates[j]) # messages[k]

\* the digits at positions a..b of s are a number of a score pattern: the one
\* before '/10', the one after a dash, or the one after 'mood'
IsScoreAt(s, a, b) ==
    /\ IsNumber(s, a, b)
    /\ \/ At(s, b + 1, "/10")
       \/ \E d \in 1..(a - 1) : Ch(s, d) = "-" /\ IsSpace(s, d + 1, a - 1)
       \/ \E q \in 1..(a - 5) :
              /\ At(s, q, "mood")
              /\ \A i \in (q + 4)..(a - 1) : Ch(s, i) \in Whitespace \cup {":"}

\* C28: every checkins candidate has a score that is a non-empty string of
\* digits, without the '/10' of a denominator, and that stands in the content
\* as the number of a score pattern.
C28_ScoreIsDigits ==
    (pc = "extracted" /\ query_type = "checkins") =>
        \A k \in 1..Len(candidates) :
            LET score   == candidates[k].score
                content == lower(candidates[k].content)
            IN  /\ score # ""
                /\ \A i \in 1..Len(score) : Ch(score, i) \in Digits
                /\ \E a \in 1..Len(content) :
                       /\ At(content, a, score)
                       /\ IsScoreAt(content, a, a + Len(score) - 1)

\* checkins returned a candidate whose content holds '8/10' with the score
\* '8', and a candidate whose score is the number after a dash
C28_Witness ==
    /\ pc = "extracted"
    /\ query_type = "checkins"
    /\ \E k \in 1..Len(candidates) :
           /\ Contains(candidates[k].content, "8/10")
           /\ candidates[k].score = "8"
    /\ \E k \in 1..Len(candidates) :
           /\ ~Contains(candidates[k].content, "/10")
           /\ ~Contains(lower(candidates[k].content), "mood")
           /\ candidates[k].score = "9"

-----------------------------------------------------------------------------
(***************************************************************************)
(* Properties of the fields of a Message                                    *)
(***************************************************************************)
\* rem is a name without colon followed by one colon and nothing else
IsBareName(rem) == Len(rem) >= 2 /\ IndexOf(rem, ":") = Len(rem)

\* C29: every message whose sender is not SYSTEM has a sender that is not
\* empty and holds no colon, and a first content line that is not empty; a
\* marker line whose remainder is a name and a colon without text after it
\* starts a SYSTEM message whose content is that whole remainder.
C29_SenderAndContentNonEmpty ==
    /\ \A k \in 1..Len(Started) :
           Started[k].sender # "SYSTEM" =>
               /\ Started[k].sender # ""
               /\ ~Contains(Started[k].sender, ":")
               /\ split(Started[k].content, NL)[1] # ""
    /\ (JustStarted /\ IsBareName(RemainderOf(lines[pos]))) =>
           /\ current_message[1].sender = "SYSTEM"
           /\ current_message[1].content = RemainderOf(lines[pos])

\* parse has returned a message of a sender and the system message of the
\* marker line 'Bob:'
C29_Witness ==
    /\ pc = "parsed"
    /\ \E k \in 1..Len(messages) :
           messages[k].sender = "SYSTEM" /\ messages[k].content = "Bob:"
    /\ \E k \in 1..Len(messages) :
           messages[k].sender = "Ann" /\ messages[k].content # ""

\* the text between the opening bracket of line l and its first closing bracket
Bracketed(l) == SubSeq(l, 2, IndexOf(l, "]") - 1)

\* the fields of message m are those of the marker line l
HasMarkerFields(m, l) ==
    LET comma == IndexOf(m.timestamp, ",")
    IN  /\ m.timestamp = Bracketed(l)
        /\ m.date = SubSeq(m.timestamp, 1, comma - 1)
        /\ m.time = From(m.timestamp, comma + 2)
        /\ m.timestamp = m.date \o ", " \o m.time

\* C30: every message has for timestamp the text inside the brackets of its
\* marker line, unchanged, for date and time the parts of it before and after
\* the comma, so that timestamp = date + ', ' + time; and a step that reads a
\* continuation line leaves timestamp, sender, date and time of the open
\* message, and every message closed before, as they were.
C30_TimestampParts ==
    /\ [](\A k \in 1..Len(Started) : HasMarkerFields(Started[k], lines[MarkerIndex(k)]))
    /\ [][(pc = "parse" /\ pos < Len(lines) /\ ~IsMarker(lines[pos + 1])) =>
              /\ Len(Started') = Len(Started)
              /\ \A k \in 1..Len(Started) :
                     /\ Started'[k].timestamp = Started[k].timestamp
                     /\ Started'[k].sender = Started[k].sender
                     /\ Started'[k].date = Started[k].date
                     /\ Started'[k].time = Started[k].time]_vars

\* parse has returned a message with seconds in its timestamp and a
\* continuation line in its content, and a message without seconds
C30_Witness ==
    /\ pc = "parsed"
    /\ \E k \in 1..Len(messages) :
           /\ messages[k].timestamp = "01/02/2024, 09:15:00"
           /\ messages[k].time = "09:15:00"
           /\ Contains(messages[k].content, NL)
    /\ \E k \in 1..Len(messages) :
           /\ messages[k].date = "31/01/2024"
           /\ messages[k].time = "10:00"

====
